---- MODULE Spec2Model ----
(***************************************************************************)
(* Verification model of the spreadsheet-context streaming chat bridge:    *)
(*   - MyModelAdapter.run   (frontend/src/context/runtimeProvider.tsx)     *)
(*   - ExcelBridge          (frontend/src/services/excelBridge.ts)         *)
(*   - useExcelContext      (hooks/useExcelContext, bundled in App.tsx)    *)
(*   - ExcelService         (services/excelService, unnamed/part_004)      *)
(* Text is modelled as a sequence of characters, each character a string.  *)
(***************************************************************************)
EXTENDS Integers, Sequences, FiniteSets, TLC

(***************************************************************************)
(* Bounds of the model.                                                    *)
(***************************************************************************)
\* Largest number of frames (lines) in one response body.
MaxFrames == 3

(***************************************************************************)
(* Characters and bytes.  ASCII characters are their own single byte; the  *)
(* character U+00E9 is the two bytes C3 A9 on the wire.                    *)
(***************************************************************************)
NL == "\n"
QUOTE == "\""
EACUTE == "U+00E9"
REPLACEMENT == "U+FFFD"
LEAD == "xC3"
CONT == "xA9"

\* The empty string "".
EmptyText == << >>

RECURSIVE ConcatAll(_)
\* Array.prototype.join("") of a sequence of texts.
ConcatAll(ss) ==
  IF ss = << >> THEN << >> ELSE Head(ss) \o ConcatAll(Tail(ss))

RECURSIVE JoinLines(_)
\* The lines of a body, joined by "\n".
JoinLines(ls) ==
  IF ls = << >> THEN << >>
  ELSE IF Len(ls) = 1 THEN ls[1]
  ELSE ls[1] \o <<NL>> \o JoinLines(Tail(ls))

RECURSIVE Utf8Encode(_)
\* The bytes the backend puts on the wire for a text.
Utf8Encode(cs) ==
  IF cs = << >> THEN << >>
  ELSE (IF Head(cs) = EACUTE THEN <<LEAD, CONT>> ELSE <<Head(cs)>>)
       \o Utf8Encode(Tail(cs))

(***************************************************************************)
(* TextDecoder.  DecodeBytes consumes bytes one at a time, carrying the    *)
(* bytes of an incomplete character in `pending`.                          *)
(***************************************************************************)
RECURSIVE DecodeBytes(_, _, _)
DecodeBytes(pending, bytes, out) ==
  IF bytes = << >> THEN [text |-> out, pending |-> pending]
  ELSE LET b == Head(bytes)
           rest == Tail(bytes)
       IN IF pending = << >>
          THEN IF b = LEAD THEN DecodeBytes(<<b>>, rest, out)
               ELSE IF b = CONT THEN DecodeBytes(<< >>, rest, Append(out, REPLACEMENT))
               ELSE DecodeBytes(<< >>, rest, Append(out, b))
          ELSE IF b = CONT THEN DecodeBytes(<< >>, rest, Append(out, EACUTE))
               ELSE IF b = LEAD THEN DecodeBytes(<<b>>, rest, Append(out, REPLACEMENT))
               ELSE DecodeBytes(<< >>, rest, out \o <<REPLACEMENT, b>>)

\* decoder.decode(value, { stream: true })
TextDecoderDecode(pending, value) ==
  DecodeBytes(pending, value, << >>)

\* response.text(): the whole body decoded at once, then flushed.
ResponseText(bytes) ==
  LET d == DecodeBytes(<< >>, bytes, << >>)
  IN IF d.pending = << >> THEN d.text ELSE Append(d.text, REPLACEMENT)

(***************************************************************************)
(* String helpers of the decoder loop.                                     *)
(***************************************************************************)
IsWhitespace(c) == c \in {" ", "\t", "\r", NL}

RECURSIVE TrimStart(_)
TrimStart(s) ==
  IF s # << >> /\ IsWhitespace(Head(s)) THEN TrimStart(Tail(s)) ELSE s

RECURSIVE TrimEnd(_)
TrimEnd(s) ==
  IF s # << >> /\ IsWhitespace(s[Len(s)]) THEN TrimEnd(SubSeq(s, 1, Len(s) - 1)) ELSE s

\* String.prototype.trim
Trim(s) == TrimEnd(TrimStart(s))

\* String.prototype.startsWith
StartsWith(s, prefix) ==
  /\ Len(s) >= Len(prefix)
  /\ SubSeq(s, 1, Len(prefix)) = prefix

RECURSIVE SplitFrom(_, _, _)
SplitFrom(s, cur, acc) ==
  IF s = << >> THEN Append(acc, cur)
  ELSE IF Head(s) = NL THEN SplitFrom(Tail(s), << >>, Append(acc, cur))
  ELSE SplitFrom(Tail(s), Append(cur, Head(s)), acc)

\* buffer.split('\n'): always at least one element.
Split(s) == SplitFrom(s, << >>, << >>)

\* A buggy lines.pop(): the incomplete trailing line is thrown away.
PopLine_Dropped(parts) == EmptyText

\* lines.pop() || ""
PopLine(parts) == parts[Len(parts)]

\* What lines.pop() leaves in `lines`.
CompleteLines(parts) == SubSeq(parts, 1, Len(parts) - 1)

IsDigit(c) == c \in {"0", "1", "2", "3", "4", "5", "6", "7", "8", "9"}

\* JSON.parse followed by string conversion (fullText += chunk converts the
\* parsed value).  Over the characters of the model a JSON text is a string
\* literal or a non-negative integer, with optional surrounding whitespace.
JsonParse(s) ==
  LET t == Trim(s)
      n == Len(t)
      isString == /\ n >= 2
                  /\ t[1] = QUOTE
                  /\ t[n] = QUOTE
                  /\ \A i \in 2..(n - 1) : t[i] \notin {QUOTE, "\\", NL, "\t", "\r"}
      isNumber == /\ n >= 1
                  /\ \A i \in 1..n : IsDigit(t[i])
                  /\ (n > 1 => t[1] # "0")
  IN IF isString THEN [ok |-> TRUE, str |-> SubSeq(t, 2, n - 1)]
     ELSE IF isNumber THEN [ok |-> TRUE, str |-> t]
     ELSE [ok |-> FALSE, str |-> EmptyText]

\* A buggy accumulation: the delta replaces the running total.
AppendChunk_Delta(fullText, chunk) == chunk

\* fullText += chunk
AppendChunk(fullText, chunk) == fullText \o chunk

\* The frame-type prefix '0:'.
TextPrefix == <<"0", ":">>

\* What one synchronous stretch of the generator leaves behind.
Stretch(lines, fullText, yields, thrown, skipped) ==
  [lines |-> lines, fullText |-> fullText, yields |-> yields,
   thrown |-> thrown, skipped |-> skipped]

RECURSIVE RunLines(_, _)

\* Without the inner try/catch a frame that fails to parse ends the loop.
ParseFailure_Throws(rest, fullText) ==
  Stretch(rest, fullText, FALSE, TRUE, 0)

\* catch (error) { console.warn(...) }: the for loop goes on with the next line.
ParseFailure(rest, fullText) ==
  LET r == RunLines(rest, fullText)
  IN [r EXCEPT !.skipped = @ + 1]

\* The for loop over `lines`, from its current line up to its next yield or
\* to its end.
RunLines(lines, fullText) ==
  IF lines = << >> THEN Stretch(<< >>, fullText, FALSE, FALSE, 0)
  ELSE LET line == Head(lines)
           rest == Tail(lines)
       IN IF Trim(line) = << >> THEN RunLines(rest, fullText)
          ELSE IF ~StartsWith(line, TextPrefix) THEN RunLines(rest, fullText)
          ELSE LET chunk == JsonParse(SubSeq(line, 3, Len(line)))
               IN IF ~chunk.ok THEN ParseFailure(rest, fullText)
                  ELSE Stretch(rest, AppendChunk(fullText, chunk.str), TRUE, FALSE, 0)

\* "Process any remaining buffer" after the read loop.
FinalBuffer(buffer, fullText) ==
  IF Trim(buffer) = << >> THEN Stretch(<< >>, fullText, FALSE, FALSE, 0)
  ELSE IF ~StartsWith(buffer, TextPrefix) THEN Stretch(<< >>, fullText, FALSE, FALSE, 0)
  ELSE LET chunk == JsonParse(SubSeq(buffer, 3, Len(buffer)))
       IN IF ~chunk.ok THEN Stretch(<< >>, fullText, FALSE, FALSE, 1)
          ELSE Stretch(<< >>, AppendChunk(fullText, chunk.str), TRUE, FALSE, 0)

\* A status check that lets every response through.
ResponseOk_Always(status) == TRUE

\* response.ok
ResponseOk(status) == status \in 200..299

(***************************************************************************)
(* The frames a backend may send, one per line: <frameType>:<JSON string>. *)
(* `payload` is the text the frame contributes to the answer.              *)
(***************************************************************************)
Frame(line, kind, payload) == [line |-> line, kind |-> kind, payload |-> payload]

FrameA == Frame(<<"0", ":", QUOTE, "a", QUOTE>>, "text", <<"a">>)
FrameE == Frame(<<"0", ":", QUOTE, EACUTE, QUOTE>>, "text", <<EACUTE>>)
FrameMalformed == Frame(<<"0", ":", QUOTE, "a">>, "malformed", EmptyText)
FrameOther == Frame(<<"1", ":", QUOTE, "a", QUOTE>>, "other", EmptyText)
FrameBlank == Frame(<<" ">>, "blank", EmptyText)

Frames == {FrameA, FrameE, FrameMalformed, FrameOther, FrameBlank}

\* The sequences of at most n frames.
FrameSeqs(n) == UNION {[1..k -> Frames] : k \in 0..n}

\* The HTTP statuses the backend answers with.
Statuses == {200, 500}

(***************************************************************************)
(* State.                                                                  *)
(***************************************************************************)
VARIABLES
  frames,        \* the frames of the response body, as the backend sent them
  bodyText,      \* the response body as text
  responseBody,  \* the response body as bytes (null body: hasBody = FALSE)
  hasBody,       \* response.body is not null
  readPos,       \* how many bytes reader.read() has delivered
  pc,            \* where the generator MyModelAdapter.run is suspended
  status,        \* response.status (0 before the response)
  aborted,       \* abortSignal.aborted
  locked,        \* the response stream is locked to the reader
  acquired,      \* getReader() was called in this run
  pending,       \* the TextDecoder's bytes of an incomplete character
  buffer,        \* let buffer
  lines,         \* the lines of the for loop not yet visited
  fullText,      \* let fullText
  yielded,       \* the texts yielded so far, oldest first
  skipped,       \* how many frames the catch blocks have logged and skipped
  midLine,       \* some read ended inside a line or inside a character
  runError       \* the error the run was rejected with

runVars == <<frames, bodyText, responseBody, hasBody, readPos, pc, status, aborted,
             locked, acquired, pending, buffer, lines, fullText, yielded, skipped,
             midLine, runError>>

VARIABLES
  office,        \* the application hosting the add-in: "Excel", "Word" or "absent"
  sheets,        \* the names of the workbook's worksheets, in order
  active,        \* the name of the active worksheet
  cells,         \* the cell values of every worksheet
  selection,     \* the address of the selected range
  context,       \* the state of the useExcelContext hook (the snapshot)
  initStarted,   \* the mount effect has called initializeExcel
  lastCall,      \* the tool call executeToolCall was last given
  lastResult,    \* what that call's promise resolved to
  prevCall,      \* the tool call before that one, if it was a successful write_cell
  settled,       \* how that call's promise settled: "resolved" or "rejected"
  hostLog,       \* the host calls made during that call, with their outcome
  calls          \* how many tool calls were executed

bridgeVars == <<office, sheets, active, cells, selection, context, initStarted,
                lastCall, lastResult, prevCall, settled, hostLog, calls>>

\* The context store (useExcelContext) called on its own: its last operation,
\* and the selection-change listener with its timers.
VARIABLES
  storeOp,       \* the store operation run last, with how its promise settled
  storeLog,      \* the host calls made during that operation, with their outcome
  before,        \* the context when that operation started
  ops,           \* how many store operations were called
  timers,        \* the pending setTimeout callbacks: the milliseconds each has left
  sinceEvent,    \* the milliseconds since the last selection-change event,
                 \* counted up to the delay (the delay itself: none recently)
  events         \* how many selection-change events the host has raised

storeVars == <<storeOp, storeLog, before, ops, timers, sinceEvent, events>>

\* preprocessMessageContent called on its own.
VARIABLES
  content,           \* the text it is given
  processedContent,  \* the text it returned
  prePc,             \* "start" before the call, "done" after it, "idle": no call
  preLog             \* the host calls made during the call, with their outcome

preVars == <<content, processedContent, prePc, preLog>>

\* A pure function called on its own.
VARIABLES
  fnArgs,    \* the arguments it is given
  fnResult,  \* what it returned
  fnPc       \* "start" before the call, the function's name after it, "idle": no call

fnVars == <<fnArgs, fnResult, fnPc>>

\* No call of a pure function.
FnIdle ==
  /\ fnArgs = << >>
  /\ fnResult = << >>
  /\ fnPc = "idle"

\* The operations of the hook in flight: each is suspended at an await.
VARIABLES
  flights,    \* the operations in flight, in the order they started
  started,    \* how many operations the user or the host started
  updates,    \* how many operations have completed with a write of snapshot data
  lastDone    \* the operation that completed last, and what it read

asyncVars == <<flights, started, updates, lastDone>>

\* An operation as it completed: whether it went through without a catch,
\* whether it wrote data fields of the snapshot, the fields it read from the
\* host with their values, and whether another operation wrote the snapshot
\* while it was in flight.
Done(kind, ok, refreshed, reads, overlapped) ==
  [kind |-> kind, ok |-> ok, refreshed |-> refreshed, reads |-> reads,
   overlapped |-> overlapped]

\* No operation has completed yet.
NoneDone == Done("none", TRUE, FALSE, << >>, FALSE)

\* The hook's operations are not followed one await at a time.
AsyncIdle ==
  /\ flights = << >>
  /\ started = 0
  /\ updates = 0
  /\ lastDone = NoneDone

\* MyModelAdapter.run up to the request body.
VARIABLES
  messages,      \* the conversation run is given (the caller's array)
  sentMessages,  \* requestBody.messages
  msgPc          \* "start" before the request body is built, "sent" after, "idle"

msgVars == <<messages, sentMessages, msgPc>>

\* No conversation is being prepared.
MsgIdle ==
  /\ messages = << >>
  /\ sentMessages = << >>
  /\ msgPc = "idle"

vars == <<runVars, bridgeVars, storeVars, preVars, fnVars, asyncVars, msgVars>>

\* new Error(...) as the run's rejection.
RunFailure(kind, st, text) == [kind |-> kind, status |-> st, text |-> text]

NoError == RunFailure("none", 0, EmptyText)

\* The states in which the generator has finished.
Terminal == {"done", "failed", "returned"}

\* The rejection of a pending fetch, body read or reader.read().
TransportFailure == IF aborted THEN "AbortError" ELSE "NetworkError"

\* The run's variables when the fetch is issued.
RunInit ==
  /\ hasBody \in BOOLEAN
  /\ frames \in (IF hasBody THEN FrameSeqs(MaxFrames) ELSE {<< >>})
  /\ \E trailing \in (IF hasBody THEN BOOLEAN ELSE {FALSE}) :
       bodyText = JoinLines([i \in 1..Len(frames) |-> frames[i].line])
                    \o (IF trailing THEN <<NL>> ELSE << >>)
  /\ responseBody = Utf8Encode(bodyText)
  /\ readPos = 0
  /\ pc = "fetch"
  /\ status = 0
  /\ aborted = FALSE
  /\ locked = FALSE
  /\ acquired = FALSE
  /\ pending = << >>
  /\ buffer = EmptyText
  /\ lines = << >>
  /\ fullText = EmptyText
  /\ yielded = << >>
  /\ skipped = 0
  /\ midLine = FALSE
  /\ runError = NoError

(***************************************************************************)
(* MyModelAdapter.run, from the fetch on.  Each action is one resumption   *)
(* of the generator: it runs to the next await, the next yield or the end. *)
(***************************************************************************)

\* The state after a synchronous stretch `r` of the decoding code; `idle` is
\* where the code goes when the stretch ends without a yield, `atYield`
\* where it is suspended when it yields.  A stretch that throws, and one that
\* leaves the try block, run the finally block: reader.releaseLock().
AfterStretch(r, idle, atYield) ==
  /\ lines' = r.lines
  /\ fullText' = r.fullText
  /\ skipped' = skipped + r.skipped
  /\ IF r.thrown
       THEN /\ pc' = "failed"
            /\ locked' = FALSE
            /\ runError' = RunFailure("SyntaxError", status, EmptyText)
            /\ yielded' = yielded
       ELSE IF r.yields
         THEN /\ pc' = atYield
              /\ yielded' = Append(yielded, r.fullText)
              /\ UNCHANGED <<locked, runError>>
         ELSE /\ pc' = idle
              /\ locked' = (IF idle = "done" THEN FALSE ELSE locked)
              /\ UNCHANGED <<yielded, runError>>

\* await fetch(...) resolves with a response.
FetchResolves ==
  /\ pc = "fetch"
  /\ ~aborted
  /\ \E s \in Statuses :
       /\ status' = s
       /\ IF ~ResponseOk(s)
            THEN /\ pc' = "errorText"
                 /\ UNCHANGED <<locked, acquired, runError>>
            ELSE IF ~hasBody
              THEN /\ pc' = "failed"
                   /\ runError' = RunFailure("NoResponseBody", s, EmptyText)
                   /\ UNCHANGED <<locked, acquired>>
              ELSE /\ pc' = "read"
                   /\ locked' = TRUE
                   /\ acquired' = TRUE
                   /\ UNCHANGED runError
  /\ UNCHANGED <<frames, bodyText, responseBody, hasBody, readPos, aborted, pending,
                 buffer, lines, fullText, yielded, skipped, midLine>>
  /\ UNCHANGED <<bridgeVars, storeVars, preVars, fnVars, asyncVars, msgVars>>

\* await fetch(...) rejects: the signal was aborted, or the network failed.
FetchRejects ==
  /\ pc = "fetch"
  /\ pc' = "failed"
  /\ runError' = RunFailure(TransportFailure, status, EmptyText)
  /\ UNCHANGED <<frames, bodyText, responseBody, hasBody, readPos, status, aborted,
                 locked, acquired, pending, buffer, lines, fullText, yielded, skipped, midLine>>
  /\ UNCHANGED <<bridgeVars, storeVars, preVars, fnVars, asyncVars, msgVars>>

\* await response.text() resolves: throw new Error(`HTTP ${status}: ${errorText}`).
ErrorTextResolves ==
  /\ pc = "errorText"
  /\ ~aborted
  /\ pc' = "failed"
  /\ runError' = RunFailure("HTTP", status, ResponseText(responseBody))
  /\ UNCHANGED <<frames, bodyText, responseBody, hasBody, readPos, status, aborted,
                 locked, acquired, pending, buffer, lines, fullText, yielded, skipped, midLine>>
  /\ UNCHANGED <<bridgeVars, storeVars, preVars, fnVars, asyncVars, msgVars>>

\* await response.text() rejects.
ErrorTextRejects ==
  /\ pc = "errorText"
  /\ pc' = "failed"
  /\ runError' = RunFailure(TransportFailure, status, EmptyText)
  /\ UNCHANGED <<frames, bodyText, responseBody, hasBody, readPos, status, aborted,
                 locked, acquired, pending, buffer, lines, fullText, yielded, skipped, midLine>>
  /\ UNCHANGED <<bridgeVars, storeVars, preVars, fnVars, asyncVars, msgVars>>

\* await reader.read() resolves with { done: false, value }: the next n bytes.
ReadChunk ==
  /\ pc = "read"
  /\ ~aborted
  /\ \E n \in 1..(Len(responseBody) - readPos) :
       LET value == SubSeq(responseBody, readPos + 1, readPos + n)
           d == TextDecoderDecode(pending, value)
           parts == Split(buffer \o d.text)
       IN /\ readPos' = readPos + n
          /\ pending' = d.pending
          /\ buffer' = PopLine(parts)
          /\ midLine' = (midLine \/ (/\ readPos + n < Len(responseBody)
                                     /\ (PopLine(parts) # EmptyText \/ d.pending # << >>)))
          /\ AfterStretch(RunLines(CompleteLines(parts), fullText), "read", "yield")
  /\ UNCHANGED <<frames, bodyText, responseBody, hasBody, status, aborted, acquired>>
  /\ UNCHANGED <<bridgeVars, storeVars, preVars, fnVars, asyncVars, msgVars>>

\* await reader.read() resolves with { done: true }: the loop breaks and the
\* remaining buffer is processed.
ReadDone ==
  /\ pc = "read"
  /\ ~aborted
  /\ readPos = Len(responseBody)
  /\ AfterStretch(FinalBuffer(buffer, fullText), "done", "yieldFinal")
  /\ UNCHANGED <<frames, bodyText, responseBody, hasBody, readPos, status, aborted,
                 acquired, pending, buffer, midLine>>
  /\ UNCHANGED <<bridgeVars, storeVars, preVars, fnVars, asyncVars, msgVars>>

\* await reader.read() rejects: the error leaves through the finally block.
ReadRejects ==
  /\ pc = "read"
  /\ pc' = "failed"
  /\ locked' = FALSE
  /\ runError' = RunFailure(TransportFailure, status, EmptyText)
  /\ UNCHANGED <<frames, bodyText, responseBody, hasBody, readPos, status, aborted,
                 acquired, pending, buffer, lines, fullText, yielded, skipped, midLine>>
  /\ UNCHANGED <<bridgeVars, storeVars, preVars, fnVars, asyncVars, msgVars>>

\* The consumer asks for the next value: the generator resumes after its yield.
ConsumerNext ==
  /\ \/ /\ pc = "yield"
        /\ AfterStretch(RunLines(lines, fullText), "read", "yield")
     \/ /\ pc = "yieldFinal"
        /\ pc' = "done"
        /\ locked' = FALSE
        /\ UNCHANGED <<lines, fullText, yielded, skipped, runError>>
  /\ UNCHANGED <<frames, bodyText, responseBody, hasBody, readPos, status, aborted,
                 acquired, pending, buffer, midLine>>
  /\ UNCHANGED <<bridgeVars, storeVars, preVars, fnVars, asyncVars, msgVars>>

\* A generator whose yields are not inside try/finally: return() ends it and
\* nothing releases the reader.
ConsumerReturn_NoFinally ==
  /\ pc \in {"yield", "yieldFinal"}
  /\ pc' = "returned"
  /\ UNCHANGED <<frames, bodyText, responseBody, hasBody, readPos, status, aborted,
                 locked, acquired, pending, buffer, lines, fullText, yielded, skipped,
                 midLine, runError>>
  /\ UNCHANGED <<bridgeVars, storeVars, preVars, fnVars, asyncVars, msgVars>>

\* The consumer ends the generator early (return()): the finally block runs.
ConsumerReturn ==
  /\ pc \in {"yield", "yieldFinal"}
  /\ pc' = "returned"
  /\ locked' = FALSE
  /\ UNCHANGED <<frames, bodyText, responseBody, hasBody, readPos, status, aborted,
                 acquired, pending, buffer, lines, fullText, yielded, skipped,
                 midLine, runError>>
  /\ UNCHANGED <<bridgeVars, storeVars, preVars, fnVars, asyncVars, msgVars>>

\* The caller aborts the signal handed to run; it can do so whenever the
\* generator is suspended.
Abort ==
  /\ pc \notin Terminal
  /\ ~aborted
  /\ aborted' = TRUE
  /\ UNCHANGED <<frames, bodyText, responseBody, hasBody, readPos, pc, status,
                 locked, acquired, pending, buffer, lines, fullText, yielded, skipped,
                 midLine, runError>>
  /\ UNCHANGED <<bridgeVars, storeVars, preVars, fnVars, asyncVars, msgVars>>

NextRun ==
  \/ FetchResolves
  \/ FetchRejects
  \/ ErrorTextResolves
  \/ ErrorTextRejects
  \/ ReadChunk
  \/ ReadDone
  \/ ReadRejects
  \/ ConsumerNext
  \/ ConsumerReturn
  \/ Abort

(***************************************************************************)
(* Properties of MyModelAdapter.run, checked under SpecRun.                *)
(***************************************************************************)

\* The payloads of the well-formed text frames of a body, in arrival order.
Payloads(fs) ==
  LET texts == SelectSeq(fs, LAMBDA f : f.kind = "text")
  IN [i \in 1..Len(texts) |-> texts[i].payload]

\* The number of frames of one kind in a body.
CountKind(fs, kind) == Len(SelectSeq(fs, LAMBDA f : f.kind = kind))

RECURSIVE AllYields(_, _)
\* Every text the for loop yields over `ls` when the consumer takes them all.
AllYields(ls, text) ==
  LET r == RunLines(ls, text)
  IN IF r.yields THEN <<r.fullText>> \o AllYields(r.lines, r.fullText) ELSE << >>

\* The texts yielded when the whole body arrives in one single read.
SingleRead(bytes) ==
  LET d == TextDecoderDecode(<< >>, bytes)
      parts == Split(d.text)
      inLoop == AllYields(CompleteLines(parts), EmptyText)
      text == IF inLoop = << >> THEN EmptyText ELSE inLoop[Len(inLoop)]
      final == FinalBuffer(PopLine(parts), text)
  IN IF final.yields THEN Append(inLoop, final.fullText) ELSE inLoop

\* C1: however the body is cut into reads (inside a line, inside a
\* character, before a final frame without newline), a run that reaches the
\* end of the stream has yielded exactly the texts that a single read of the
\* whole body yields: nothing dropped, nothing duplicated.
C1_SplitIndependent ==
  pc = "done" => yielded = SingleRead(responseBody)

\* C1 witness: the body 0:"a" \n 0:"<e-acute>" was cut inside a line and the
\* run ended having yielded "a" and then "a<e-acute>".
C1_Witness ==
  /\ pc = "done"
  /\ midLine
  /\ frames = <<FrameA, FrameE>>
  /\ yielded = << <<"a">>, <<"a", EACUTE>> >>

\* C2: the k-th yielded text is the concatenation of the payloads of the
\* first k well-formed text frames; one value per such frame; the running
\* total is the last yielded text, so other frames leave it alone.
C2_Cumulative ==
  /\ Len(yielded) <= Len(Payloads(frames))
  /\ \A k \in 1..Len(yielded) :
       yielded[k] = ConcatAll(SubSeq(Payloads(frames), 1, k))
  /\ fullText = (IF yielded = << >> THEN EmptyText ELSE yielded[Len(yielded)])
  /\ (pc = "done" => Len(yielded) = Len(Payloads(frames)))

\* C2 witness: two text frames around a frame of another type; the second
\* yielded text extends the first.
C2_Witness ==
  /\ pc \in {"yield", "yieldFinal"}
  /\ Len(yielded) = 2
  /\ yielded[1] # yielded[2]
  /\ \E i \in 1..Len(frames) : frames[i].kind = "other"

\* C3: once the caller has aborted, the run yields no further value.
C3_NoYieldAfterAbort ==
  [][aborted => yielded' = yielded]_vars

\* C4: a finished run never leaves the response stream locked to its reader.
C4_ReaderReleased ==
  pc \in Terminal => ~locked

\* C4 witness: the consumer ended the generator early, after the reader had
\* been acquired and a value yielded.
C4_Witness ==
  /\ pc = "returned"
  /\ acquired
  /\ yielded # << >>
  /\ ~locked

\* C5: a frame that fails to decode never fails the run; at the end of the
\* stream every malformed frame has been skipped and every well-formed text
\* frame, also those after a malformed one, has been decoded and yielded.
C5_MalformedSkipped ==
  /\ runError.kind # "SyntaxError"
  /\ skipped <= CountKind(frames, "malformed")
  /\ (pc = "done" =>
        /\ skipped = CountKind(frames, "malformed")
        /\ Len(yielded) = CountKind(frames, "text")
        /\ fullText = ConcatAll(Payloads(frames)))

\* C5 witness: a malformed frame followed by a well-formed one, which was
\* yielded.
C5_Witness ==
  /\ pc = "done"
  /\ frames = <<FrameMalformed, FrameA>>
  /\ skipped = 1
  /\ yielded = << <<"a">> >>

\* C6: with a non-success status the run never yields and never acquires
\* the reader; it fails, and the failure carries the status code and the
\* body text (unless the transport itself failed while the error body was
\* being read, which is then the failure).
C6_NonSuccessFails ==
  (status # 0 /\ status \notin 200..299) =>
    /\ yielded = << >>
    /\ ~acquired
    /\ ~locked
    /\ pc \in {"errorText", "failed"}
    /\ (pc = "failed" =>
          \/ runError = RunFailure("HTTP", status, bodyText)
          \/ runError.kind \in {"AbortError", "NetworkError"})
    /\ (pc = "failed" /\ ~aborted /\ runError.kind # "NetworkError" =>
          runError.kind = "HTTP")

\* C6 witness: a 500 answer with a non-empty body failed the run with
\* "HTTP 500: <body>".
C6_Witness ==
  /\ pc = "failed"
  /\ status = 500
  /\ bodyText # EmptyText
  /\ runError = RunFailure("HTTP", 500, bodyText)

(***************************************************************************)
(* The host workbook and ExcelService.  A worksheet is the grid A1:B1.     *)
(* A "world" record w carries the host workbook, the context of the        *)
(* useExcelContext hook and the log of the host calls of the operation in  *)
(* progress, so that the awaited calls of one operation can be chained.    *)
(***************************************************************************)
\* Largest number of tool calls in one behaviour.
MaxCalls == 2

\* JavaScript undefined (as a parameter, and as `${...}` renders it).
UNDEF == "undefined"

\* JavaScript null in a slot that otherwise holds an object.
Null == [isNull |-> TRUE]

Addrs == {"A1", "B1"}
Cols == <<"A1", "B1">>
EmptyCell == ""
EmptyGrid == [a \in Addrs |-> EmptyCell]
WorkbookName == "Book1"

\* The host calls ExcelService makes, and those among them that write.
HostOps == {"getWorkbookInfo", "getSelectedRange", "getRangeData",
            "getActiveWorksheetData", "setCellValue", "setRangeValues",
            "createWorksheet"}
MutatingOps == {"setCellValue", "setRangeValues", "createWorksheet"}

\* error.message of the OfficeExtension.Error a failed host call rejects with.
HostError(op) == "host error in " \o op

\* A promise settled: resolved with a value, or rejected with an Error.
Resolved(w, value) == [ok |-> TRUE, w |-> w, value |-> value, error |-> ""]
Rejected(w, message) == [ok |-> FALSE, w |-> w, value |-> Null, error |-> message]

\* One Excel.run(...) with its context.sync() recorded.
Logged(w, op, ok) == [w EXCEPT !.log = Append(@, [op |-> op, ok |-> ok])]

\* Whether the host rejects the call: the add-in is not running inside
\* Excel, or the host fails this operation (chosen by the environment).
HostRejects(w, op, fails) == w.office # "Excel" \/ op \in fails

\* RangeData of the columns first..last of a worksheet.
RangeOf(w, sheet, first, last) ==
  LET row == [i \in 1..(last - first + 1) |-> w.cells[sheet][Cols[first + i - 1]]]
      addr == IF first = last THEN Cols[first] ELSE Cols[first] \o ":" \o Cols[last]
  IN [address |-> sheet \o "!" \o addr, values |-> <<row>>, formulas |-> <<row>>]

\* worksheet.getRange(address): no address is the entire worksheet.
FirstCol(address) == IF address = "B1" THEN 2 ELSE 1
LastCol(address) == IF address = "A1" THEN 1 ELSE 2
ValidAddress(address) == address \in {UNDEF, "A1", "B1", "A1:B1"}

\* `if (worksheetName) getItem(worksheetName) else getActiveWorksheet()`
TargetSheet(w, worksheetName) ==
  IF worksheetName # UNDEF THEN worksheetName ELSE w.active

SheetExists(w, sheet) == \E i \in 1..Len(w.sheets) : w.sheets[i] = sheet

\* initialize resolving true without looking at the host.
ServiceInitialize_Always(w) == TRUE

\* ExcelService.initialize
ServiceInitialize(w) == w.office = "Excel"

\* What the user may do in Excel while getWorkbookInfo is between its two
\* context.sync(): add a worksheet, which the host makes the active one.
\* The environment chooses it together with the host calls that fail.
UserAddsSheet == "user adds a worksheet"
UserSheetName == "Sheet3"

AddSheetByUser(w) ==
  IF SheetExists(w, UserSheetName) THEN [w EXCEPT !.active = UserSheetName]
  ELSE [w EXCEPT !.sheets = Append(@, UserSheetName),
                 !.active = UserSheetName,
                 !.cells = [s \in (DOMAIN @) \cup {UserSheetName} |->
                              IF s = UserSheetName THEN EmptyGrid ELSE @[s]]]

\* ExcelService.getWorkbookInfo: the worksheet list is loaded by the first
\* context.sync(), the active worksheet's name by the second.
ServiceGetWorkbookInfo(w, fails) ==
  IF HostRejects(w, "getWorkbookInfo", fails)
    THEN Rejected(Logged(w, "getWorkbookInfo", FALSE), HostError("getWorkbookInfo"))
    ELSE LET items == w.sheets
             w2 == IF UserAddsSheet \in fails THEN AddSheetByUser(w) ELSE w
         IN Resolved(Logged(w2, "getWorkbookInfo", TRUE),
                     [workbookName |-> WorkbookName,
                      worksheets |-> [i \in 1..Len(items) |->
                                        [name |-> items[i], id |-> items[i],
                                         isActive |-> items[i] = w2.active]],
                      activeWorksheet |-> w2.active])

\* ExcelService.getSelectedRange
ServiceGetSelectedRange(w, fails) ==
  IF HostRejects(w, "getSelectedRange", fails)
    THEN Rejected(Logged(w, "getSelectedRange", FALSE), HostError("getSelectedRange"))
    ELSE Resolved(Logged(w, "getSelectedRange", TRUE),
                  RangeOf(w, w.active, FirstCol(w.selection), LastCol(w.selection)))

\* worksheet.getRange(address) with an address that names a worksheet, as
\* range.address does ("Sheet1!A1"): the host accepts it when the worksheet
\* named is the one the range is asked of, and takes the part after "!".
LocalAddress(sheet, address) ==
  IF \E a \in {"A1", "B1", "A1:B1"} : address = sheet \o "!" \o a
    THEN CHOOSE a \in {"A1", "B1", "A1:B1"} : address = sheet \o "!" \o a
    ELSE address

\* ExcelService.getRangeData
ServiceGetRangeData(w, fails, rangeAddress, worksheetName) ==
  LET sheet == TargetSheet(w, worksheetName)
      address == LocalAddress(sheet, rangeAddress)
  IN IF \/ HostRejects(w, "getRangeData", fails)
        \/ ~SheetExists(w, sheet)
        \/ ~ValidAddress(address)
       THEN Rejected(Logged(w, "getRangeData", FALSE), HostError("getRangeData"))
       ELSE Resolved(Logged(w, "getRangeData", TRUE),
                     RangeOf(w, sheet, FirstCol(address), LastCol(address)))

\* worksheet.getUsedRange(): the smallest range holding every non-empty
\* cell; the top-left cell of a blank worksheet.
UsedFirst(grid) == IF grid["A1"] = EmptyCell /\ grid["B1"] # EmptyCell THEN 2 ELSE 1
UsedLast(grid) == IF grid["B1"] # EmptyCell THEN 2 ELSE 1

\* ExcelService.getActiveWorksheetData
ServiceGetActiveWorksheetData(w, fails) ==
  IF HostRejects(w, "getActiveWorksheetData", fails)
    THEN Rejected(Logged(w, "getActiveWorksheetData", FALSE),
                  HostError("getActiveWorksheetData"))
    ELSE Resolved(Logged(w, "getActiveWorksheetData", TRUE),
                  RangeOf(w, w.active, UsedFirst(w.cells[w.active]),
                          UsedLast(w.cells[w.active])))

\* setCellValue without its context.sync(): the queued write never reaches
\* the workbook.
ServiceSetCellValue_NoSync(w, fails, cellAddress, value, worksheetName) ==
  IF HostRejects(w, "setCellValue", fails)
    THEN Rejected(Logged(w, "setCellValue", FALSE), HostError("setCellValue"))
    ELSE Resolved(Logged(w, "setCellValue", TRUE), Null)

\* ExcelService.setCellValue: cell.values = [[value]].  The host rejects a
\* 1 x 1 array for a range of another size.
ServiceSetCellValue(w, fails, cellAddress, value, worksheetName) ==
  LET sheet == TargetSheet(w, worksheetName)
  IN IF \/ HostRejects(w, "setCellValue", fails)
        \/ ~SheetExists(w, sheet)
        \/ cellAddress \notin Addrs
       THEN Rejected(Logged(w, "setCellValue", FALSE), HostError("setCellValue"))
       ELSE Resolved([Logged(w, "setCellValue", TRUE)
                        EXCEPT !.cells[sheet][cellAddress] =
                                 IF value = UNDEF THEN @ ELSE value], Null)

\* ExcelService.setRangeValues: range.values = values.  The host rejects an
\* array whose dimensions are not those of the range; an undefined `values`
\* assigns nothing.
ServiceSetRangeValues(w, fails, rangeAddress, hasValues, values, worksheetName) ==
  LET sheet == TargetSheet(w, worksheetName)
      first == FirstCol(rangeAddress)
      last == LastCol(rangeAddress)
      fits == /\ Len(values) = 1
              /\ Len(values[1]) = last - first + 1
  IN IF \/ HostRejects(w, "setRangeValues", fails)
        \/ ~SheetExists(w, sheet)
        \/ ~ValidAddress(rangeAddress)
        \/ (hasValues /\ ~fits)
       THEN Rejected(Logged(w, "setRangeValues", FALSE), HostError("setRangeValues"))
       ELSE IF ~hasValues THEN Resolved(Logged(w, "setRangeValues", TRUE), Null)
       ELSE Resolved([Logged(w, "setRangeValues", TRUE)
                        EXCEPT !.cells[sheet] =
                          [a \in Addrs |->
                             IF a = Cols[first] THEN values[1][1]
                             ELSE IF a = Cols[last] THEN values[1][last - first + 1]
                             ELSE @[a]]], Null)

\* The name worksheets.add() gives a worksheet added without a name.
DefaultSheetName == "SheetN"

\* ExcelService.createWorksheet: worksheets.add(name).  The host rejects a
\* name already in use and names a worksheet added without a name itself.
ServiceCreateWorksheet(w, fails, name) ==
  LET sheet == IF name = UNDEF THEN DefaultSheetName ELSE name
  IN IF HostRejects(w, "createWorksheet", fails) \/ SheetExists(w, sheet)
       THEN Rejected(Logged(w, "createWorksheet", FALSE), HostError("createWorksheet"))
       ELSE Resolved([Logged(w, "createWorksheet", TRUE)
                        EXCEPT !.sheets = Append(@, sheet),
                               !.cells = [s \in (DOMAIN @) \cup {sheet} |->
                                            IF s = sheet THEN EmptyGrid ELSE @[s]]],
                     [name |-> sheet, id |-> sheet, isActive |-> FALSE])

(***************************************************************************)
(* useExcelContext: the context (snapshot) and its actions.  Each operator *)
(* is one async function run to its end, given the host calls that fail.   *)
(***************************************************************************)
\* useState<ExcelContext>({...})
InitialContext ==
  [workbookName |-> "", worksheets |-> << >>, activeWorksheet |-> "",
   selectedRange |-> Null, activeWorksheetData |-> Null,
   isExcelReady |-> FALSE, isLoading |-> TRUE, error |-> Null]

NotAvailableMessage ==
  "Excel is not available. Please ensure this add-in is running in Excel."

\* A sub-read inside try/catch: `x = null; try { x = await read() } catch {}`.
OrNull(r) == IF r.ok THEN r.value ELSE Null

\* initializeExcel
InitializeExcelOp(w, fails) ==
  LET w0 == [w EXCEPT !.ctx.isLoading = TRUE, !.ctx.error = Null]
      failed(wf, message) ==
        [wf EXCEPT !.ctx.isLoading = FALSE, !.ctx.error = [message |-> message]]
  IN IF ~ServiceInitialize(w0) THEN failed(w0, NotAvailableMessage)
     ELSE LET info == ServiceGetWorkbookInfo(w0, fails)
          IN IF ~info.ok THEN failed(info.w, info.error)
             ELSE LET sel == ServiceGetSelectedRange(info.w, fails)
                      data == ServiceGetActiveWorksheetData(sel.w, fails)
                  IN [data.w EXCEPT !.ctx =
                        [workbookName |-> info.value.workbookName,
                         worksheets |-> info.value.worksheets,
                         activeWorksheet |-> info.value.activeWorksheet,
                         selectedRange |-> OrNull(sel),
                         activeWorksheetData |-> OrNull(data),
                         isExcelReady |-> TRUE,
                         isLoading |-> FALSE,
                         error |-> Null]]

\* refreshContext without the test of isExcelReady.
RefreshContext_NoGate(w, fails) ==
  IF FALSE THEN Resolved(w, Null)
  ELSE LET w0 == [w EXCEPT !.ctx.isLoading = TRUE]
           info == ServiceGetWorkbookInfo(w0, fails)
       IN IF ~info.ok
            THEN Resolved([info.w EXCEPT !.ctx.isLoading = FALSE,
                                         !.ctx.error = [message |-> info.error]],
                          Null)
            ELSE LET sel == ServiceGetSelectedRange(info.w, fails)
                     data == ServiceGetActiveWorksheetData(sel.w, fails)
                 IN Resolved([data.w EXCEPT
                                !.ctx.workbookName = info.value.workbookName,
                                !.ctx.worksheets = info.value.worksheets,
                                !.ctx.activeWorksheet = info.value.activeWorksheet,
                                !.ctx.selectedRange = OrNull(sel),
                                !.ctx.activeWorksheetData = OrNull(data),
                                !.ctx.isLoading = FALSE],
                             Null)

\* refreshContext: resolves in every case; a failing getWorkbookInfo is
\* recorded in context.error and not rethrown.
RefreshContext(w, fails) ==
  IF ~w.ctx.isExcelReady THEN Resolved(w, Null)
  ELSE LET w0 == [w EXCEPT !.ctx.isLoading = TRUE]
           info == ServiceGetWorkbookInfo(w0, fails)
       IN IF ~info.ok
            THEN Resolved([info.w EXCEPT !.ctx.isLoading = FALSE,
                                         !.ctx.error = [message |-> info.error]],
                          Null)
            ELSE LET sel == ServiceGetSelectedRange(info.w, fails)
                     data == ServiceGetActiveWorksheetData(sel.w, fails)
                 IN Resolved([data.w EXCEPT
                                !.ctx.workbookName = info.value.workbookName,
                                !.ctx.worksheets = info.value.worksheets,
                                !.ctx.activeWorksheet = info.value.activeWorksheet,
                                !.ctx.selectedRange = OrNull(sel),
                                !.ctx.activeWorksheetData = OrNull(data),
                                !.ctx.isLoading = FALSE],
                             Null)

\* actions.getSelectedRange: null when the host read fails.
GetSelectedRange(w, fails) ==
  LET r == ServiceGetSelectedRange(w, fails)
  IN IF r.ok THEN Resolved([r.w EXCEPT !.ctx.selectedRange = r.value], r.value)
     ELSE Resolved(r.w, Null)

\* actions.getRangeData
GetRangeData(w, fails, address, worksheet) ==
  ServiceGetRangeData(w, fails, address, worksheet)

\* setCellValue without the refresh after the write.
SetCellValue_NoRefresh(w, fails, address, value, worksheet) ==
  ServiceSetCellValue(w, fails, address, value, worksheet)

\* actions.setCellValue
SetCellValue(w, fails, address, value, worksheet) ==
  LET r == ServiceSetCellValue(w, fails, address, value, worksheet)
  IN IF r.ok THEN RefreshContext(r.w, fails) ELSE r

\* actions.setRangeValues
SetRangeValues(w, fails, address, hasValues, values, worksheet) ==
  LET r == ServiceSetRangeValues(w, fails, address, hasValues, values, worksheet)
  IN IF r.ok THEN RefreshContext(r.w, fails) ELSE r

\* createWorksheet refreshing whether or not the host call went through,
\* and so resolving when it failed.
CreateWorksheet_Swallow(w, fails, name) ==
  RefreshContext(ServiceCreateWorksheet(w, fails, name).w, fails)

\* actions.createWorksheet
CreateWorksheet(w, fails, name) ==
  LET r == ServiceCreateWorksheet(w, fails, name)
  IN IF r.ok THEN RefreshContext(r.w, fails) ELSE r

(***************************************************************************)
(* ExcelBridge.  A tool call carries its action tag and the parameters     *)
(* the backend gave; a parameter that was not given reads as undefined.    *)
(***************************************************************************)
\* The characters of the cell values and search terms of the model: the
\* words listed, and otherwise a single character.
CharsOf(str) ==
  CASE str = "" -> << >>
    [] str = "foo" -> <<"f", "o", "o">>
    [] str = "FOO" -> <<"F", "O", "O">>
    [] str = "bar" -> <<"b", "a", "r">>
    [] str = "baz" -> <<"b", "a", "z">>
    [] str = "ba" -> <<"b", "a">>
    [] OTHER -> <<str>>

\* String.prototype.toLowerCase, character by character.
LowerChar(c) ==
  CASE c = "X" -> "x"
    [] c = "Y" -> "y"
    [] c = "F" -> "f"
    [] c = "O" -> "o"
    [] OTHER -> c
ToLowerCase(cs) == [i \in 1..Len(cs) |-> LowerChar(cs[i])]

\* String.prototype.includes
Includes(cs, part) ==
  \E i \in 0..(Len(cs) - Len(part)) : SubSeq(cs, i + 1, i + Len(part)) = part

\* String.fromCharCode(65 + k) for k in 0..25.
Alphabet == <<"A", "B", "C", "D", "E", "F", "G", "H", "I", "J", "K", "L", "M",
              "N", "O", "P", "Q", "R", "S", "T", "U", "V", "W", "X", "Y", "Z">>

RECURSIVE ColumnCodes(_)
\* The values of tempCol % 26 the while loop of indexToAddress puts in front
\* of columnName, in the order they stand in it.
ColumnCodes(tempCol) ==
  IF tempCol < 0 THEN << >>
  ELSE Append(ColumnCodes((tempCol \div 26) - 1), tempCol % 26)

RECURSIVE ColumnName_ZeroDigit(_)
\* The loop in plain base 26, where A is a zero digit.
ColumnName_ZeroDigit(tempCol) ==
  IF tempCol < 26 THEN Alphabet[tempCol + 1]
  ELSE ColumnName_ZeroDigit(tempCol \div 26) \o Alphabet[(tempCol % 26) + 1]

RECURSIVE ColumnName(_)
\* The while loop of indexToAddress: base 26 without a zero digit.
ColumnName(tempCol) ==
  IF tempCol < 0 THEN ""
  ELSE ColumnName((tempCol \div 26) - 1) \o Alphabet[(tempCol % 26) + 1]

\* ExcelBridge.indexToAddress
IndexToAddress(row, col) == ColumnName(col) \o ToString(row + 1)

\* findInData collecting the matches column by column.
FindInData_ByColumn(values, searchTerm) ==
  LET searchLower == ToLowerCase(CharsOf(searchTerm))
      cellsOf(c) == [r \in 1..Len(values) |->
                       [row |-> r, column |-> c,
                        address |-> IndexToAddress(r - 1, c - 1),
                        value |-> values[r][c], match |-> TRUE]]
      matches(c) == SelectSeq(cellsOf(c),
                      LAMBDA m : Includes(ToLowerCase(CharsOf(m.value)), searchLower))
      colsFrom[c \in 1..3] ==
        IF c > 2 THEN << >> ELSE matches(c) \o colsFrom[c + 1]
  IN colsFrom[1]

\* ExcelBridge.findInData, for a search term that is a string.
FindInData(values, searchTerm) ==
  LET searchLower == ToLowerCase(CharsOf(searchTerm))
      cellsOf(r) == [c \in 1..Len(values[r]) |->
                       [row |-> r, column |-> c,
                        address |-> IndexToAddress(r - 1, c - 1),
                        value |-> values[r][c], match |-> TRUE]]
      matches(r) == SelectSeq(cellsOf(r),
                      LAMBDA m : Includes(ToLowerCase(CharsOf(m.value)), searchLower))
      rowsFrom[r \in 1..(Len(values) + 1)] ==
        IF r > Len(values) THEN << >> ELSE matches(r) \o rowsFrom[r + 1]
  IN rowsFrom[1]

ToolCall(action, given, p) ==
  [action |-> action, given |-> given,
   range_address |-> IF "range_address" \in given THEN p.range_address ELSE UNDEF,
   cell_address |-> IF "cell_address" \in given THEN p.cell_address ELSE UNDEF,
   value |-> IF "value" \in given THEN p.value ELSE UNDEF,
   values |-> IF "values" \in given THEN p.values ELSE << >>,
   worksheet_name |-> IF "worksheet_name" \in given THEN p.worksheet_name ELSE UNDEF,
   search_term |-> IF "search_term" \in given THEN p.search_term ELSE UNDEF,
   data_range |-> IF "data_range" \in given THEN p.data_range ELSE UNDEF]

\* The action tags executeToolCall has a case for.
KnownActions == {"read_range", "write_cell", "write_range", "get_workbook_info",
                 "get_selected_range", "create_worksheet", "analyze_data",
                 "find_data", "format_range", "create_chart"}

\* Action tags the switch has no case for.
UnknownActions == {"delete_worksheet", "READ_RANGE"}

\* The host calls a tool call can reach.
OpsOf(action) ==
  LET refresh == {"getWorkbookInfo", "getSelectedRange", "getActiveWorksheetData"}
  IN CASE action = "read_range" -> {"getRangeData"}
       [] action = "write_cell" -> {"setCellValue"} \cup refresh
       [] action = "write_range" -> {"setRangeValues"} \cup refresh
       [] action = "get_workbook_info" -> refresh
       [] action = "get_selected_range" -> {"getSelectedRange"}
       [] action = "create_worksheet" -> {"createWorksheet"} \cup refresh
       [] action = "analyze_data" -> {"getRangeData", "getSelectedRange"}
       [] action = "find_data" -> {"getActiveWorksheetData"}
       [] OTHER -> {}

\* The host failures of one tool call: none, or one of the host calls it
\* can reach rejects every time it is made during the call.
FailuresOf(action) == {{}} \cup {{op} : op \in OpsOf(action)}

\* The tool calls of the model: every action tag, with each of its
\* parameters given or left out.
ParamValues ==
  [range_address |-> "A1:B1", cell_address |-> "A1", value |-> "x",
   values |-> << <<"x", "Y">> >>, worksheet_name |-> "Sheet2",
   search_term |-> "X", data_range |-> "A1:B1"]

ParamsOf(action) ==
  CASE action = "read_range" -> {"range_address"}
    [] action = "write_cell" -> {"cell_address", "value"}
    [] action = "write_range" -> {"range_address", "values"}
    [] action = "create_worksheet" -> {"worksheet_name"}
    [] action = "analyze_data" -> {"range_address"}
    [] action = "find_data" -> {"search_term"}
    [] action = "format_range" -> {"range_address"}
    [] action = "create_chart" -> {"data_range"}
    [] OTHER -> {}

\* The same values with a single cell as the range.
CellParamValues == [ParamValues EXCEPT !.range_address = "A1"]

ToolCalls ==
  UNION {{ToolCall(a, g, ParamValues) : g \in SUBSET ParamsOf(a)} :
           a \in KnownActions \cup UnknownActions}
    \cup {ToolCall("read_range", {"range_address"}, CellParamValues)}

\* ExcelToolResult: data and error are optional fields.
Absent == [absent |-> TRUE]
Success(data) == [success |-> TRUE, data |-> data, error |-> Absent]
Failure(message) == [success |-> FALSE, data |-> Absent, error |-> [message |-> message]]

\* How a handler ends: it returns a result, or an error is thrown in it.
Return(w, result) == [w |-> w, thrown |-> FALSE, result |-> result, message |-> ""]
Throw(w, message) == [w |-> w, thrown |-> TRUE, result |-> Absent, message |-> message]

\* `${worksheet_name ? ` in worksheet "${worksheet_name}"` : ''}`
InWorksheet(worksheet_name) ==
  IF worksheet_name # UNDEF THEN " in worksheet \"" \o worksheet_name \o "\"" ELSE ""

\* The message of the TypeError thrown by reading a property of undefined.
TypeErrorMessage(property) ==
  "Cannot read properties of undefined (reading '" \o property \o "')"

\* `values[0]?.length || 0`
FirstRowLength(values) == IF values = << >> THEN 0 ELSE Len(values[1])

\* handleReadRange
HandleReadRange(w, toolCall, fails) ==
  LET r == GetRangeData(w, fails, toolCall.range_address, toolCall.worksheet_name)
  IN IF ~r.ok THEN Throw(r.w, r.error)
     ELSE Return(r.w, Success(
            [address |-> r.value.address, values |-> r.value.values,
             formulas |-> r.value.formulas,
             summary |-> "Read " \o ToString(Len(r.value.values)) \o " rows and "
                           \o ToString(FirstRowLength(r.value.values))
                           \o " columns from " \o r.value.address]))

\* handleWriteCell
HandleWriteCell(w, toolCall, fails) ==
  LET r == SetCellValue(w, fails, toolCall.cell_address, toolCall.value,
                        toolCall.worksheet_name)
  IN IF ~r.ok THEN Throw(r.w, r.error)
     ELSE Return(r.w, Success(
            [message |-> "Successfully wrote \"" \o toolCall.value \o "\" to cell "
                           \o toolCall.cell_address
                           \o InWorksheet(toolCall.worksheet_name)]))

\* handleWriteRange: `values.length` is read after the write was awaited.
HandleWriteRange(w, toolCall, fails) ==
  LET r == SetRangeValues(w, fails, toolCall.range_address,
                          "values" \in toolCall.given, toolCall.values,
                          toolCall.worksheet_name)
  IN IF ~r.ok THEN Throw(r.w, r.error)
     ELSE IF "values" \notin toolCall.given THEN Throw(r.w, TypeErrorMessage("length"))
     ELSE Return(r.w, Success(
            [message |-> "Successfully wrote " \o ToString(Len(toolCall.values))
                           \o " rows and " \o ToString(FirstRowLength(toolCall.values))
                           \o " columns to range " \o toolCall.range_address
                           \o InWorksheet(toolCall.worksheet_name)]))

\* handleGetWorkbookInfo
HandleGetWorkbookInfo(w, fails) ==
  LET r == RefreshContext(w, fails)
  IN Return(r.w, Success(
       [message |-> "Workbook information refreshed and available in context"]))

\* handleGetSelectedRange
HandleGetSelectedRange(w, fails) ==
  LET r == GetSelectedRange(w, fails)
  IN IF r.value = Null
       THEN Return(r.w, Success([message |-> "No range is currently selected",
                                 selectedRange |-> Null]))
       ELSE Return(r.w, Success([message |-> "Selected range: " \o r.value.address,
                                 selectedRange |-> r.value]))

\* handleCreateWorksheet
HandleCreateWorksheet(w, toolCall, fails) ==
  LET r == CreateWorksheet(w, fails, toolCall.worksheet_name)
  IN IF ~r.ok THEN Throw(r.w, r.error)
     ELSE Return(r.w, Success(
            [message |-> "Successfully created worksheet \""
                           \o toolCall.worksheet_name \o "\""]))

\* handleAnalyzeData
HandleAnalyzeData(w, toolCall, fails) ==
  LET ready(wr, data) ==
        Return(wr, Success([range |-> data.address, rawData |-> data,
                            message |-> "Data from " \o data.address
                                          \o " ready for AI analysis"]))
  IN IF toolCall.range_address # UNDEF
       THEN LET r == GetRangeData(w, fails, toolCall.range_address,
                                  toolCall.worksheet_name)
            IN IF ~r.ok
                 THEN Return(r.w, Failure("Failed to prepare data: " \o r.error))
                 ELSE ready(r.w, r.value)
       ELSE LET r == GetSelectedRange(w, fails)
            IN IF r.value = Null
                 THEN Return(r.w, Failure(
                        "No range specified and no range selected for analysis"))
                 ELSE ready(r.w, r.value)

\* handleFindData
HandleFindData(w, toolCall, fails) ==
  LET r == ServiceGetActiveWorksheetData(w, fails)
      failed(message) ==
        Return(r.w, Failure("Failed to search for \"" \o toolCall.search_term
                              \o "\": " \o message))
  IN IF ~r.ok THEN failed(r.error)
     ELSE IF toolCall.search_term = UNDEF THEN failed(TypeErrorMessage("toLowerCase"))
     ELSE LET results == FindInData(r.value.values, toolCall.search_term)
          IN Return(r.w, Success(
               [searchTerm |-> toolCall.search_term, results |-> results,
                message |-> "Found " \o ToString(Len(results)) \o " matches for \""
                              \o toolCall.search_term \o "\""]))

\* handleFormatRange reaching the host for the range before it answers.
HandleFormatRange_HostCall(w, toolCall) ==
  Return(ServiceGetRangeData(w, {}, toolCall.range_address, toolCall.worksheet_name).w,
         Success([message |-> "Formatting applied to range " \o toolCall.range_address]))

\* handleFormatRange (format_type is not given by the tool calls of the model)
HandleFormatRange(w, toolCall) ==
  Return(w, Success(
    [message |-> "Formatting \"" \o UNDEF \o "\" would be applied to range "
                   \o toolCall.range_address \o InWorksheet(toolCall.worksheet_name)
                   \o ". (Note: Advanced formatting not yet implemented)"]))

\* handleCreateChart (chart_title and chart_type are not given by the tool
\* calls of the model)
HandleCreateChart(w, toolCall) ==
  Return(w, Success(
    [message |-> "Chart \"" \o UNDEF \o "\" of type \"" \o UNDEF
                   \o "\" would be created from range " \o toolCall.data_range
                   \o InWorksheet(toolCall.worksheet_name)
                   \o ". (Note: Chart creation not yet implemented)"]))

\* A switch whose default falls into the last case.
UnknownAction_Fallthrough(w, toolCall) == HandleCreateChart(w, toolCall)

\* default: of the switch in executeToolCall
UnknownAction(w, toolCall) ==
  Return(w, Failure("Unknown Excel action: " \o toolCall.action))

\* A catch block that reports the failure as a success.
CatchError_Success(message) ==
  [success |-> TRUE, data |-> Absent, error |-> [message |-> message]]

\* catch (error) of executeToolCall, for an error that is an Error.
CatchError(message) == Failure(message)

\* The switch of executeToolCall.
Dispatch(w, toolCall, fails) ==
  CASE toolCall.action = "read_range" -> HandleReadRange(w, toolCall, fails)
    [] toolCall.action = "write_cell" -> HandleWriteCell(w, toolCall, fails)
    [] toolCall.action = "write_range" -> HandleWriteRange(w, toolCall, fails)
    [] toolCall.action = "get_workbook_info" -> HandleGetWorkbookInfo(w, fails)
    [] toolCall.action = "get_selected_range" -> HandleGetSelectedRange(w, fails)
    [] toolCall.action = "create_worksheet" -> HandleCreateWorksheet(w, toolCall, fails)
    [] toolCall.action = "analyze_data" -> HandleAnalyzeData(w, toolCall, fails)
    [] toolCall.action = "find_data" -> HandleFindData(w, toolCall, fails)
    [] toolCall.action = "format_range" -> HandleFormatRange(w, toolCall)
    [] toolCall.action = "create_chart" -> HandleCreateChart(w, toolCall)
    [] OTHER -> UnknownAction(w, toolCall)

\* ExcelBridge.executeToolCall: the promise it returns, settled.
ExecuteToolCallOp(w, toolCall, fails) ==
  LET h == Dispatch(w, toolCall, fails)
  IN [w |-> h.w, settled |-> "resolved",
      result |-> IF h.thrown THEN CatchError(h.message) ELSE h.result]

(***************************************************************************)
(* The bridge and the context hook as a state machine.                     *)
(***************************************************************************)
\* The host workbook, the context and the log as one record.
World ==
  [office |-> office, sheets |-> sheets, active |-> active, cells |-> cells,
   selection |-> selection, ctx |-> context, log |-> hostLog]

\* The variables take the values of the world w.
SetWorld(w) ==
  /\ office' = w.office
  /\ sheets' = w.sheets
  /\ active' = w.active
  /\ cells' = w.cells
  /\ selection' = w.selection
  /\ context' = w.ctx
  /\ hostLog' = w.log

NoToolCall == ToolCall("", {}, ParamValues)
NoResult == [success |-> FALSE, data |-> Absent, error |-> Absent]

\* The grids an existing worksheet may hold when the add-in starts.
InitialGrids == {EmptyGrid, [a \in Addrs |-> IF a = "A1" THEN "x" ELSE "Y"]}

\* The bridge's variables after construction: the hook's initial state, no
\* tool call yet.
BridgeInit ==
  /\ office \in {"Excel", "Word", "absent"}
  /\ sheets = <<"Sheet1">>
  /\ active = "Sheet1"
  /\ \E g \in InitialGrids : cells = [s \in {"Sheet1"} |-> g]
  /\ selection \in {"A1", "A1:B1"}
  /\ context = InitialContext
  /\ initStarted = FALSE
  /\ lastCall = NoToolCall
  /\ lastResult = NoResult
  /\ prevCall = NoToolCall
  /\ settled = "none"
  /\ hostLog = << >>
  /\ calls = 0

\* The bridge's variables in a behaviour of the chat run alone.
BridgeIdle ==
  /\ office = "Excel"
  /\ sheets = <<"Sheet1">>
  /\ active = "Sheet1"
  /\ cells = [s \in {"Sheet1"} |-> EmptyGrid]
  /\ selection = "A1"
  /\ context = InitialContext
  /\ initStarted = FALSE
  /\ lastCall = NoToolCall
  /\ lastResult = NoResult
  /\ prevCall = NoToolCall
  /\ settled = "none"
  /\ hostLog = << >>
  /\ calls = 0

\* The run's variables in a behaviour of the bridge alone: no run.
RunIdle ==
  /\ hasBody = FALSE
  /\ frames = << >>
  /\ bodyText = EmptyText
  /\ responseBody = << >>
  /\ readPos = 0
  /\ pc = "idle"
  /\ status = 0
  /\ aborted = FALSE
  /\ locked = FALSE
  /\ acquired = FALSE
  /\ pending = << >>
  /\ buffer = EmptyText
  /\ lines = << >>
  /\ fullText = EmptyText
  /\ yielded = << >>
  /\ skipped = 0
  /\ midLine = FALSE
  /\ runError = NoError

\* useEffect(() => { initializeExcel() }, [initializeExcel]): on mount.
\* A store operation as it is recorded: its name and how its promise settled.
StoreOp(name, outcome) == [name |-> name, outcome |-> outcome]

InitializeExcel ==
  /\ ~initStarted
  /\ initStarted' = TRUE
  /\ \E fails \in FailuresOf("get_workbook_info") :
       LET w == InitializeExcelOp([World EXCEPT !.log = << >>], fails)
       IN /\ SetWorld([w EXCEPT !.log = hostLog])
          /\ storeLog' = w.log
  /\ storeOp' = StoreOp("initializeExcel", "resolved")
  /\ before' = context
  /\ UNCHANGED <<ops, timers, sinceEvent, events>>
  /\ UNCHANGED <<lastCall, lastResult, prevCall, settled, calls>>
  /\ UNCHANGED runVars
  /\ UNCHANGED msgVars
  /\ UNCHANGED asyncVars
  /\ UNCHANGED fnVars
  /\ UNCHANGED preVars

\* bridge.executeToolCall(toolCall), with the host calls that fail during it.
ExecuteToolCall ==
  /\ calls < MaxCalls
  /\ calls' = calls + 1
  /\ \E tc \in ToolCalls :
       \E fails \in FailuresOf(tc.action) :
         LET out == ExecuteToolCallOp([World EXCEPT !.log = << >>], tc, fails)
         IN /\ SetWorld(out.w)
            /\ lastCall' = tc
            /\ prevCall' = IF lastCall.action = "write_cell" /\ lastResult.success
                             THEN lastCall ELSE NoToolCall
            /\ lastResult' = out.result
            /\ settled' = out.settled
  /\ UNCHANGED initStarted
  /\ UNCHANGED storeVars
  /\ UNCHANGED runVars
  /\ UNCHANGED msgVars
  /\ UNCHANGED asyncVars
  /\ UNCHANGED fnVars
  /\ UNCHANGED preVars

\* setTimeout(..., 500)
DebounceDelay == 500

\* The step of the clock: half the delay, so that two events can be less
\* than one delay apart.
TickMs == DebounceDelay \div 2

\* No call of preprocessMessageContent.
PreIdle ==
  /\ content = EmptyText
  /\ processedContent = EmptyText
  /\ prePc = "idle"
  /\ preLog = << >>

\* The store's bookkeeping before any of its operations was called.
StoreIdle ==
  /\ storeOp = StoreOp("none", "none")
  /\ storeLog = << >>
  /\ before = InitialContext
  /\ ops = 0
  /\ timers = << >>
  /\ sinceEvent = DebounceDelay
  /\ events = 0

InitBridge == BridgeInit /\ RunIdle /\ StoreIdle /\ PreIdle /\ FnIdle /\ AsyncIdle /\ MsgIdle

NextBridge ==
  \/ InitializeExcel
  \/ ExecuteToolCall

SpecBridge == InitBridge /\ [][NextBridge]_vars

InitRun == RunInit /\ BridgeIdle /\ StoreIdle /\ PreIdle /\ FnIdle /\ AsyncIdle /\ MsgIdle

SpecRun == InitRun /\ [][NextRun]_vars

(***************************************************************************)
(* Properties of ExcelBridge.executeToolCall.                              *)
(***************************************************************************)
\* Some host call made during the last tool call was rejected.
HostCallFailed == \E i \in 1..Len(hostLog) : ~hostLog[i].ok

\* Some host call made during the last tool call changed the workbook.
HostMutated ==
  \E i \in 1..Len(hostLog) : hostLog[i].op \in MutatingOps /\ hostLog[i].ok

\* C7: executeToolCall never lets a host exception escape: whenever a host
\* call fails during the handler, the returned promise resolves to a result
\* with success = false; no handler reports success = true for a call whose
\* host operation failed.
C7_HostFailureReported ==
  calls > 0 =>
    /\ settled = "resolved"
    /\ HostCallFailed => ~lastResult.success

\* C8: for every action tag outside the fixed set of ten, executeToolCall
\* resolves to success = false with the unknown-action error, does not throw,
\* and performs no host call.
C8_UnknownActionFails ==
  (calls > 0 /\ lastCall.action \notin KnownActions) =>
    /\ settled = "resolved"
    /\ lastResult = Failure("Unknown Excel action: " \o lastCall.action)
    /\ hostLog = << >>

\* C8 witness: with the add-in ready inside Excel, the second tool call
\* carries the tag delete_worksheet and is answered with the unknown-action
\* failure without any host call.
C8_Witness ==
  /\ calls = 2
  /\ context.isExcelReady
  /\ lastCall.action = "delete_worksheet"
  /\ lastResult = Failure("Unknown Excel action: delete_worksheet")
  /\ hostLog = << >>

\* C9: every handler validates its required parameters before acting: a tool
\* call that omits a required parameter returns success = false, and no host
\* mutation has been performed.
C9_MissingParameterRejected ==
  LET required ==
        CASE lastCall.action = "read_range" -> {"range_address"}
          [] lastCall.action = "write_cell" -> {"cell_address"}
          [] lastCall.action = "write_range" -> {"range_address", "values"}
          [] lastCall.action = "create_worksheet" -> {"worksheet_name"}
          [] lastCall.action = "find_data" -> {"search_term"}
          [] lastCall.action = "format_range" -> {"range_address"}
          [] lastCall.action = "create_chart" -> {"data_range"}
          [] OTHER -> {}
  IN (calls > 0 /\ required \ lastCall.given # {}) =>
       /\ ~lastResult.success
       /\ ~HostMutated

\* C10: every result of executeToolCall has exactly one meaningful field
\* besides success: data and no error when success = true, an error message
\* and no data when success = false, for every action tag and host outcome.
C10_ExactlyOneField ==
  calls > 0 =>
    /\ lastResult.success => (lastResult.data # Absent /\ lastResult.error = Absent)
    /\ ~lastResult.success => (lastResult.error # Absent /\ lastResult.data = Absent)

\* C10 witness: a read_range call whose host read was rejected resolved to
\* a failure carrying the host's message and no data.
C10_Witness ==
  /\ calls > 0
  /\ lastCall.action = "read_range"
  /\ "range_address" \in lastCall.given
  /\ HostCallFailed
  /\ lastResult = [success |-> FALSE, data |-> Absent,
                   error |-> [message |-> HostError("getRangeData")]]

\* The host calls of the last tool call all resolved.
HostCallsResolved == ~HostCallFailed

\* C11: a successful write_cell of value v at address a, followed immediately
\* by a read_range of the same address and worksheet, returns success = true
\* with values containing v (the host answering the read).
C11_WriteThenRead ==
  ( /\ calls > 1
    /\ prevCall.action = "write_cell"
    /\ "value" \in prevCall.given
    /\ lastCall.action = "read_range"
    /\ lastCall.range_address = prevCall.cell_address
    /\ lastCall.worksheet_name = prevCall.worksheet_name
    /\ HostCallsResolved )
  => /\ lastResult.success
     /\ \E r \in 1..Len(lastResult.data.values) :
          \E c \in 1..Len(lastResult.data.values[r]) :
            lastResult.data.values[r][c] = prevCall.value

\* C11 witness: write_cell wrote "x" to a cell of the active worksheet and the
\* read_range of that cell that followed returned it; the refresh after the
\* write put it into the snapshot as well.
C11_Witness ==
  /\ calls = 2
  /\ prevCall.action = "write_cell"
  /\ prevCall.value = "x"
  /\ lastCall.action = "read_range"
  /\ lastCall.range_address = prevCall.cell_address
  /\ lastResult.success
  /\ lastResult.data.values = << <<"x">> >>
  /\ context.isExcelReady
  /\ context.activeWorksheetData # Null
  /\ context.activeWorksheetData.values = << <<"x">> >>

(***************************************************************************)
(* The context store called on its own, with the selection-change          *)
(* listener: every action of useExcelContext, the events of the host and   *)
(* the passing of time.                                                    *)
(***************************************************************************)
MaxOps == 3

\* A call of one of the actions the hook returns.
StoreCall(name, address, value, values, worksheet) ==
  [name |-> name, address |-> address, value |-> value, values |-> values,
   worksheet |-> worksheet]

StoreCalls ==
  { StoreCall("refreshContext", UNDEF, UNDEF, << >>, UNDEF),
    StoreCall("getSelectedRange", UNDEF, UNDEF, << >>, UNDEF),
    StoreCall("getRangeData", "A1:B1", UNDEF, << >>, UNDEF),
    StoreCall("setCellValue", "A1", "z", << >>, UNDEF),
    StoreCall("setRangeValues", "A1:B1", UNDEF, << <<"z", "w">> >>, UNDEF),
    StoreCall("createWorksheet", UNDEF, UNDEF, << >>, "Sheet2") }

Mutations == {"setCellValue", "setRangeValues", "createWorksheet"}

\* The host calls a store action can reach.
StoreOpsOf(name) ==
  LET refresh == {"getWorkbookInfo", "getSelectedRange", "getActiveWorksheetData"}
  IN CASE name = "refreshContext" -> refresh
       [] name = "getSelectedRange" -> {"getSelectedRange"}
       [] name = "getRangeData" -> {"getRangeData"}
       [] name \in Mutations -> {name} \cup refresh
       [] OTHER -> {}

\* What the environment does during one store action: nothing, or it makes
\* one host call fail, or the user adds a worksheet during getWorkbookInfo.
StoreEnvs(name) ==
  {{}} \cup {{op} : op \in StoreOpsOf(name)}
       \cup (IF "getWorkbookInfo" \in StoreOpsOf(name) THEN {{UserAddsSheet}} ELSE {})

\* actions[call.name](...)
RunStoreCall(w, call, fails) ==
  CASE call.name = "refreshContext" -> RefreshContext(w, fails)
    [] call.name = "getSelectedRange" -> GetSelectedRange(w, fails)
    [] call.name = "getRangeData" ->
         GetRangeData(w, fails, call.address, call.worksheet)
    [] call.name = "setCellValue" ->
         SetCellValue(w, fails, call.address, call.value, call.worksheet)
    [] call.name = "setRangeValues" ->
         SetRangeValues(w, fails, call.address, TRUE, call.values, UNDEF)
    [] call.name = "createWorksheet" -> CreateWorksheet(w, fails, call.worksheet)

\* The setTimeout callback of the selection-change listener.
SelectionTimeout(w, fails) ==
  LET r == ServiceGetSelectedRange(w, fails)
  IN IF r.ok THEN [r.w EXCEPT !.ctx.selectedRange = r.value] ELSE r.w

\* A caller awaits one of the store's actions.
CallStore ==
  /\ ops + events < MaxOps
  /\ ops' = ops + 1
  /\ \E call \in StoreCalls :
       \E fails \in StoreEnvs(call.name) :
         LET r == RunStoreCall([World EXCEPT !.log = << >>], call, fails)
         IN /\ SetWorld([r.w EXCEPT !.log = hostLog])
            /\ storeLog' = r.w.log
            /\ storeOp' = StoreOp(call.name, IF r.ok THEN "resolved" ELSE "rejected")
  /\ before' = context
  /\ UNCHANGED <<timers, sinceEvent, events>>
  /\ UNCHANGED <<initStarted, lastCall, lastResult, prevCall, settled, calls>>
  /\ UNCHANGED runVars
  /\ UNCHANGED msgVars
  /\ UNCHANGED asyncVars
  /\ UNCHANGED fnVars
  /\ UNCHANGED preVars

\* The user selects another range; the host raises onSelectionChanged, and
\* the listener (registered once the context is ready) starts a timer.
UserSelects ==
  /\ office = "Excel"
  /\ ops + events < MaxOps
  /\ events' = events + 1
  /\ \E address \in {"A1", "A1:B1"} \ {selection} : selection' = address
  /\ IF context.isExcelReady
       THEN /\ timers' = Append(timers, DebounceDelay)
            /\ sinceEvent' = 0
       ELSE UNCHANGED <<timers, sinceEvent>>
  /\ UNCHANGED <<office, sheets, active, cells, context, hostLog>>
  /\ UNCHANGED <<storeOp, storeLog, before, ops>>
  /\ UNCHANGED <<initStarted, lastCall, lastResult, prevCall, settled, calls>>
  /\ UNCHANGED runVars
  /\ UNCHANGED msgVars
  /\ UNCHANGED asyncVars
  /\ UNCHANGED fnVars
  /\ UNCHANGED preVars

\* A timer is due: its callback runs.
TimerFires ==
  /\ timers # << >>
  /\ Head(timers) = 0
  /\ timers' = Tail(timers)
  /\ \E fails \in {{}, {"getSelectedRange"}} :
       LET w == SelectionTimeout([World EXCEPT !.log = << >>], fails)
       IN /\ SetWorld([w EXCEPT !.log = hostLog])
          /\ storeLog' = w.log
  /\ storeOp' = StoreOp("onSelectionChanged", "resolved")
  /\ before' = context
  /\ UNCHANGED <<ops, sinceEvent, events>>
  /\ UNCHANGED <<initStarted, lastCall, lastResult, prevCall, settled, calls>>
  /\ UNCHANGED runVars
  /\ UNCHANGED msgVars
  /\ UNCHANGED asyncVars
  /\ UNCHANGED fnVars
  /\ UNCHANGED preVars

\* Time passes while a timer is pending, up to the moment it is due.
Tick ==
  /\ timers # << >>
  /\ Head(timers) > 0
  /\ timers' = [i \in 1..Len(timers) |-> timers[i] - TickMs]
  /\ sinceEvent' = IF sinceEvent + TickMs < DebounceDelay
                     THEN sinceEvent + TickMs ELSE DebounceDelay
  /\ UNCHANGED <<storeOp, storeLog, before, ops, events>>
  /\ UNCHANGED bridgeVars
  /\ UNCHANGED runVars
  /\ UNCHANGED msgVars
  /\ UNCHANGED asyncVars
  /\ UNCHANGED fnVars
  /\ UNCHANGED preVars

\* The workbook when the add-in starts on its own: one worksheet with data,
\* its first cell selected; the add-in may be running outside Excel.
StoreInit ==
  /\ office \in {"Excel", "Word", "absent"}
  /\ sheets = <<"Sheet1">>
  /\ active = "Sheet1"
  /\ cells = [s \in {"Sheet1"} |-> [a \in Addrs |-> IF a = "A1" THEN "x" ELSE "Y"]]
  /\ selection = "A1"
  /\ context = InitialContext
  /\ initStarted = FALSE
  /\ lastCall = NoToolCall
  /\ lastResult = NoResult
  /\ prevCall = NoToolCall
  /\ settled = "none"
  /\ hostLog = << >>
  /\ calls = 0

InitStore == StoreInit /\ RunIdle /\ StoreIdle /\ PreIdle /\ FnIdle /\ AsyncIdle /\ MsgIdle

NextStore ==
  \/ InitializeExcel
  \/ CallStore
  \/ UserSelects
  \/ TimerFires
  \/ Tick

SpecStore == InitStore /\ [][NextStore]_vars

(***************************************************************************)
(* Properties of the context store.                                        *)
(***************************************************************************)
\* The last step was a call of one of the three mutations.
MutationCalled == ops' = ops + 1 /\ storeOp'.name \in Mutations

\* The host call of the mutation, as the log records it.
MutationLogged(ok) == [op |-> storeOp'.name, ok |-> ok]

\* What a read of the host returns once the operation is over.
HostActiveData == ServiceGetActiveWorksheetData(World, {}).value
HostSelection == ServiceGetSelectedRange(World, {}).value

\* The refresh that followed the mutation read everything it asked for.
RefreshRead ==
  /\ Len(storeLog') = 4
  /\ \A i \in 1..Len(storeLog') : storeLog'[i].ok

TimerRan == Len(timers') < Len(timers)

\* C13: selection-change events are debounced: a burst of events, each less
\* than 500ms after the previous one, triggers exactly one refresh, 500ms
\* after the last event of the burst (so no callback runs while the last
\* event is younger than the delay), and that refresh is a full refresh of
\* the snapshot.
C13_Debounced ==
  [][TimerRan =>
       /\ sinceEvent >= DebounceDelay
       /\ \E i \in 1..Len(storeLog') : storeLog'[i].op = "getWorkbookInfo"]_vars

\* The data fields of a snapshot.
DataOf(c) ==
  <<c.workbookName, c.worksheets, c.activeWorksheet, c.selectedRange,
    c.activeWorksheetData>>

\* The operation of the last step read the workbook info: it was a refresh
\* (or the initialization) that went through.
WholeRead ==
  \E i \in 1..Len(storeLog') : storeLog'[i] = [op |-> "getWorkbookInfo", ok |-> TRUE]

\* C14: the stored snapshot is only ever replaced wholesale by a refresh: no
\* operation of the store changes a single data field while leaving the
\* others from an older host read, so every step that changes a data field
\* of the snapshot is a refresh that read all of them.
C14_ReplacedWholesale ==
  [][DataOf(context') # DataOf(context) => WholeRead]_vars

\* C15: in every snapshot with isExcelReady = true, activeWorksheet names an
\* entry of worksheets, and exactly the entries with that name have
\* isActive = true, also when the host's worksheets change between the two
\* syncs of getWorkbookInfo.
C15_ActiveWorksheetListed ==
  context.isExcelReady =>
    /\ \E j \in 1..Len(context.worksheets) :
         context.worksheets[j].name = context.activeWorksheet
    /\ \A j \in 1..Len(context.worksheets) :
         context.worksheets[j].isActive
           <=> context.worksheets[j].name = context.activeWorksheet

\* The last step was a call of refreshContext on a ready store.
RefreshCalled ==
  ops' = ops + 1 /\ storeOp'.name = "refreshContext" /\ context.isExcelReady

\* The host call op was rejected during the operation of the last step.
FailedIn(op) == \E i \in 1..Len(storeLog') : storeLog'[i] = [op |-> op, ok |-> FALSE]

\* C16: during a refresh each sub-read that fails (workbook name, worksheet
\* list, active worksheet, selection, used range) degrades to null for that
\* field only: the refresh still completes (every sub-read is made), replaces
\* the snapshot with what was read, and does not put the store into an error
\* state.
C16_SubReadsDegrade ==
  [][RefreshCalled =>
       /\ storeOp'.outcome = "resolved"
       /\ Len(storeLog') = 3
       /\ context'.error = context.error
       /\ ~context'.isLoading
       /\ FailedIn("getSelectedRange") => context'.selectedRange = Null
       /\ FailedIn("getActiveWorksheetData") => context'.activeWorksheetData = Null
       /\ ~FailedIn("getSelectedRange") => context'.selectedRange = HostSelection'
       /\ ~FailedIn("getActiveWorksheetData") =>
            context'.activeWorksheetData = HostActiveData']_vars

\* The last step was a call of getRangeData, of a mutation or of
\* refreshContext.
StoreCalled ==
  /\ ops' = ops + 1
  /\ storeOp'.name \in {"getRangeData", "refreshContext"} \cup Mutations

\* C17 (as claimed): when a host call made by a store operation fails, the caller gets a
\* rejected result, the stored snapshot is exactly what it was before the
\* operation started, and the failed host call is not issued a second time.
C17_FailureLeavesSnapshot ==
  [][(StoreCalled /\ \E op \in HostOps : FailedIn(op)) =>
       /\ storeOp'.outcome = "rejected"
       /\ context' = context
       /\ \A op \in HostOps :
            Cardinality({i \in 1..Len(storeLog') : storeLog'[i].op = op}) <= 1]_vars

\* The last step was a call of getRangeData or of a mutation, and the host
\* call that operation is about was rejected.
OwnCallFailed ==
  /\ ops' = ops + 1
  /\ storeOp'.name \in {"getRangeData"} \cup Mutations
  /\ FailedIn(storeOp'.name)

\* C17 (amended): when the host call of getRangeData, setCellValue,
\* setRangeValues or createWorksheet itself fails, the caller gets a rejected
\* result, the stored snapshot is exactly what it was before the operation
\* started, and the failed host call is the only host call issued.
C17_OwnFailureLeavesSnapshot ==
  [][OwnCallFailed =>
       /\ storeOp'.outcome = "rejected"
       /\ context' = context
       /\ storeLog' = <<[op |-> storeOp'.name, ok |-> FALSE]>>]_vars

\* C17 witness: createWorksheet on a ready store was rejected by the host;
\* the snapshot is the one from before the call and nothing else was asked
\* of the host.
C17_Witness ==
  /\ storeOp = StoreOp("createWorksheet", "rejected")
  /\ storeLog = <<[op |-> "createWorksheet", ok |-> FALSE]>>
  /\ before.isExcelReady
  /\ context = before

\* The last step ran initializeExcel.
Initialized == initStarted' /\ ~initStarted

\* The snapshot of the next state holds what the host reads of the
\* initialization returned.
PopulatedFromHost ==
  /\ context'.workbookName = WorkbookName
  /\ context'.activeWorksheet = active'
  /\ Len(context'.worksheets) = Len(sheets')
  /\ \A i \in 1..Len(sheets') : context'.worksheets[i].name = sheets'[i]
  /\ context'.selectedRange =
       IF FailedIn("getSelectedRange") THEN Null ELSE HostSelection'
  /\ context'.activeWorksheetData =
       IF FailedIn("getActiveWorksheetData") THEN Null ELSE HostActiveData'
  /\ context'.error = Null

\* C18: initialize fails when the host is absent or is not Excel: the
\* snapshot stays not ready with an error message recorded and no host read
\* is issued; the snapshot becomes ready only by an initialization whose host
\* check and whose read of the workbook info succeeded, and a ready snapshot
\* is populated from the host reads.
C18_Initialize ==
  [][/\ (context'.isExcelReady /\ ~context.isExcelReady) => Initialized
     /\ Initialized =>
          /\ office # "Excel" =>
               /\ ~context'.isExcelReady
               /\ context'.error = [message |-> NotAvailableMessage]
               /\ storeLog' = << >>
          /\ context'.isExcelReady <=>
               /\ office = "Excel"
               /\ storeLog' # << >>
               /\ storeLog'[1] = [op |-> "getWorkbookInfo", ok |-> TRUE]
          /\ context'.isExcelReady => PopulatedFromHost
          /\ ~context'.isExcelReady =>
               /\ context'.error # Null
               /\ DataOf(context') = DataOf(context)]_vars

\* C18 witness: the add-in was started inside Word: the initialization ended
\* with the not-available message, not ready, and without any host read.
C18_Witness ==
  /\ initStarted
  /\ office = "Word"
  /\ storeOp = StoreOp("initializeExcel", "resolved")
  /\ storeLog = << >>
  /\ ~context.isExcelReady
  /\ ~context.isLoading
  /\ context.error = [message |-> NotAvailableMessage]


(***************************************************************************)
(* preprocessMessageContent: the keywords of a message replaced by data.   *)
(* A text is a sequence of symbols; a keyword is "@" followed by its name; *)
(* a replacement is one symbol holding the rendered string.                *)
(***************************************************************************)
\* Longest message text drawn.
MaxText == 4

KeywordSelectedRange == <<"@", "selected_range">>
KeywordActiveSheet == <<"@", "active_sheet">>
KeywordWorkbookInfo == <<"@", "workbook_info">>
Keywords == {KeywordSelectedRange, KeywordActiveSheet, KeywordWorkbookInfo}

\* The symbols a message is written with.
TextSymbols == {"@", "selected_range", "active_sheet", "workbook_info", "x"}

\* The messages drawn: every text of at most MaxText symbols.
Texts == UNION {[1..n -> TextSymbols] : n \in 0..MaxText}

RECURSIVE ReplaceAll(_, _, _)
\* String.prototype.replace(/keyword/g, replacement): every occurrence,
\* left to right, without overlap.
ReplaceAll(text, keyword, replacement) ==
  IF Len(text) < Len(keyword) THEN text
  ELSE IF StartsWith(text, keyword)
    THEN <<replacement>> \o
         ReplaceAll(SubSeq(text, Len(keyword) + 1, Len(text)), keyword, replacement)
    ELSE <<Head(text)>> \o ReplaceAll(Tail(text), keyword, replacement)

RECURSIVE JoinStrings(_, _)
\* Array.prototype.join(separator) of strings.
JoinStrings(ss, separator) ==
  IF ss = << >> THEN ""
  ELSE IF Len(ss) = 1 THEN ss[1]
  ELSE ss[1] \o separator \o JoinStrings(Tail(ss), separator)

RECURSIVE ExcelColumnName(_)
\* The while loop of indexToExcelAddress.
ExcelColumnName(tempCol) ==
  IF tempCol < 0 THEN ""
  ELSE ExcelColumnName((tempCol \div 26) - 1) \o Alphabet[(tempCol % 26) + 1]

\* indexToExcelAddress
IndexToExcelAddress(row, col) == ExcelColumnName(col) \o ToString(row + 1)

\* The JavaScript value of a cell as range.values gives it: a string, a
\* number or a boolean, with the string `${cell}` renders.
JsString(str) == [type |-> "string", text |-> str]
JsNumber(n) == [type |-> "number", text |-> ToString(n)]
JsBoolean(b) == [type |-> "boolean", text |-> IF b THEN "true" ELSE "false"]

\* The values of the host model, whose cells hold text, as JavaScript values.
JsRange(rangeData) ==
  IF rangeData = Null THEN Null
  ELSE [rangeData EXCEPT !.values =
          [r \in 1..Len(@) |-> [c \in 1..Len(@[r]) |-> JsString(@[r][c])]]]

\* The values `cell || x` replaces by x, among those a cell can hold.
Falsy(cell) == cell \in {JsString(""), JsNumber(0), JsBoolean(FALSE)}

\* `${cellAddress}: ${cell || '(empty)'}` for each cell of a row, then
\* `Row ${rowIndex + 1}: ${cells}`.
FormatRow(row, rowIndex) ==
  "Row " \o ToString(rowIndex + 1) \o ": " \o
  JoinStrings([c \in 1..Len(row) |->
                 IndexToExcelAddress(rowIndex, c - 1) \o ": " \o
                 (IF Falsy(row[c]) THEN "(empty)" ELSE row[c].text)],
              ", ")

\* formatRangeDataForAI
FormatRangeDataForAI(rangeData) ==
  IF rangeData = Null THEN "No data available"
  ELSE JoinStrings([r \in 1..Len(rangeData.values) |->
                      FormatRow(rangeData.values[r], r - 1)],
                   "\n")

\* formatWorksheetDataForAI
FormatWorksheetDataForAI(worksheetData, maxRows) ==
  IF worksheetData = Null THEN "No data available"
  ELSE LET totalRows == Len(worksheetData.values)
           shown == IF totalRows > maxRows THEN maxRows ELSE totalRows
           footer == IF totalRows > maxRows
                       THEN "\n... (showing first " \o ToString(maxRows) \o
                            " of " \o ToString(totalRows) \o " rows)"
                       ELSE ""
       IN JoinStrings([r \in 1..shown |-> FormatRow(worksheetData.values[r], r - 1)],
                      "\n") \o footer

\* `${x || 'Unknown'}`
OrUnknown(str) == IF str = "" THEN "Unknown" ELSE str

\* formatWorkbookInfoForAI
FormatWorkbookInfoForAI(excelContext) ==
  LET info == <<"Workbook: " \o OrUnknown(excelContext.workbookName),
                "Active Worksheet: " \o OrUnknown(excelContext.activeWorksheet),
                "Available Worksheets: " \o
                  JoinStrings([i \in 1..Len(excelContext.worksheets) |->
                                 excelContext.worksheets[i].name], ", ")>>
  IN JoinStrings(IF excelContext.selectedRange # Null
                   THEN Append(info, "Selected Range: " \o
                                     excelContext.selectedRange.address)
                   ELSE info,
                 "\n")

\* The functions of the `actions` object useExcelContext returns.
ActionNames == {"refreshContext", "getSelectedRange", "getRangeData",
                "setCellValue", "setRangeValues", "createWorksheet"}

\* The rows of the active worksheet the "@active_sheet" keyword shows.
ActiveSheetRows == 10

\* excelActions.getActiveWorksheetData(): a TypeError when `actions` has no
\* such function.
ActionGetActiveWorksheetData(w, fails) ==
  IF "getActiveWorksheetData" \in ActionNames
    THEN ServiceGetActiveWorksheetData(w, fails)
    ELSE Rejected(w, "excelActions.getActiveWorksheetData is not a function")

\* The state of preprocessMessageContent between two of its `if` blocks:
\* the text so far, and whether the outer try was left by an exception.
PreState(w, text, thrown) == [w |-> w, text |-> text, thrown |-> thrown]

\* The "@selected_range" block reading the range before looking for the
\* keyword.
ReplaceSelectedRange_Unguarded(w, text, excelContext, fails) ==
  IF excelContext.selectedRange # Null
    THEN LET rangeData == GetRangeData(w, fails, excelContext.selectedRange.address, UNDEF)
         IN IF ~rangeData.ok THEN PreState(rangeData.w, text, TRUE)
            ELSE PreState(rangeData.w,
                          ReplaceAll(text, KeywordSelectedRange,
                                     "selected range " \o rangeData.value.address \o
                                     ":\n" \o FormatRangeDataForAI(JsRange(rangeData.value))),
                          FALSE)
    ELSE PreState(w, ReplaceAll(text, KeywordSelectedRange,
                                "no range currently selected"), FALSE)

\* The "@selected_range" block.
ReplaceSelectedRange(w, text, excelContext, fails) ==
  IF ~Includes(text, KeywordSelectedRange) THEN PreState(w, text, FALSE)
  ELSE IF excelContext.selectedRange # Null
    THEN LET rangeData == GetRangeData(w, fails, excelContext.selectedRange.address, UNDEF)
         IN IF ~rangeData.ok THEN PreState(rangeData.w, text, TRUE)
            ELSE PreState(rangeData.w,
                          ReplaceAll(text, KeywordSelectedRange,
                                     "selected range " \o rangeData.value.address \o
                                     ":\n" \o FormatRangeDataForAI(JsRange(rangeData.value))),
                          FALSE)
    ELSE PreState(w, ReplaceAll(text, KeywordSelectedRange,
                                "no range currently selected"), FALSE)

\* The "@active_sheet" block, with its own try/catch.
ReplaceActiveSheet(w, text, excelContext, fails) ==
  IF ~Includes(text, KeywordActiveSheet) THEN PreState(w, text, FALSE)
  ELSE LET worksheetData == ActionGetActiveWorksheetData(w, fails)
           name == "active worksheet \"" \o excelContext.activeWorksheet \o "\""
       IN IF worksheetData.ok
            THEN PreState(worksheetData.w,
                          ReplaceAll(text, KeywordActiveSheet,
                                     name \o ":\n" \o
                                     FormatWorksheetDataForAI(JsRange(worksheetData.value),
                                                              ActiveSheetRows)),
                          FALSE)
            ELSE PreState(worksheetData.w,
                          ReplaceAll(text, KeywordActiveSheet,
                                     name \o " (data unavailable)"),
                          FALSE)

\* The "@workbook_info" block.
ReplaceWorkbookInfo(text, excelContext) ==
  IF ~Includes(text, KeywordWorkbookInfo) THEN text
  ELSE ReplaceAll(text, KeywordWorkbookInfo, FormatWorkbookInfoForAI(excelContext))

\* preprocessMessageContent: the three blocks in one try; an exception
\* leaving a block skips the blocks after it, and the text as it is then
\* is returned.  The promise resolves in every case.
PreprocessMessageContent(w, text, excelContext, fails) ==
  LET s1 == ReplaceSelectedRange([w EXCEPT !.log = << >>], text, excelContext, fails)
      s2 == IF s1.thrown THEN s1
            ELSE ReplaceActiveSheet(s1.w, s1.text, excelContext, fails)
      s3 == IF s2.thrown THEN s2.text
            ELSE ReplaceWorkbookInfo(s2.text, excelContext)
  IN Resolved(s2.w, s3)

(***************************************************************************)
(* preprocessMessageContent as a machine: a message is drawn, the hook     *)
(* initializes, and the function is called once with the snapshot and the  *)
(* actions of the hook.                                                    *)
(***************************************************************************)
\* The host calls that may fail during the call.
PreEnvs == {{}, {"getRangeData"}}

\* The call of preprocessMessageContent.
PreprocessMessage ==
  /\ prePc = "start"
  /\ prePc' = "done"
  /\ \E fails \in PreEnvs :
       LET out == PreprocessMessageContent(World, content, context, fails)
       IN /\ processedContent' = out.value
          /\ preLog' = out.w.log
          /\ SetWorld([out.w EXCEPT !.log = hostLog])
  /\ UNCHANGED <<content, initStarted, lastCall, lastResult, prevCall, settled, calls>>
  /\ UNCHANGED runVars
  /\ UNCHANGED msgVars
  /\ UNCHANGED asyncVars
  /\ UNCHANGED fnVars
  /\ UNCHANGED storeVars

PreInit ==
  /\ StoreInit
  /\ office = "Excel"
  /\ content \in Texts
  /\ processedContent = EmptyText
  /\ prePc = "start"
  /\ preLog = << >>

InitPre == PreInit /\ RunIdle /\ StoreIdle /\ FnIdle /\ AsyncIdle /\ MsgIdle

NextPre ==
  \/ InitializeExcel
  \/ PreprocessMessage

SpecPre == InitPre /\ [][NextPre]_vars

(***************************************************************************)
(* Properties of preprocessMessageContent.                                 *)
(***************************************************************************)
\* The text holds none of the three keywords.
NoKeyword(text) == \A keyword \in Keywords : ~Includes(text, keyword)

\* C19: when the text holds none of the three keywords, the function
\* returns it unchanged and makes no host call.
C19_NoKeywordUnchanged ==
  (prePc = "done" /\ NoKeyword(content)) =>
    /\ processedContent = content
    /\ preLog = << >>

\* C19 witness: a text with "@" and a keyword's name apart, but no keyword,
\* came back as it was, with a snapshot that has a selected range.
C19_Witness ==
  /\ prePc = "done"
  /\ content = <<"@", "x", "workbook_info">>
  /\ context.selectedRange # Null
  /\ processedContent = content
  /\ preLog = << >>

\* C20: the function resolves and substitutes each keyword on its own:
\* after the call the text holds no "@active_sheet" and no "@workbook_info",
\* whatever became of the host read for "@selected_range", and it holds no
\* "@selected_range" when that read did not fail.
C20_KeywordsIndependent ==
  prePc = "done" =>
    /\ ~Includes(processedContent, KeywordActiveSheet)
    /\ ~Includes(processedContent, KeywordWorkbookInfo)
    /\ (\A i \in 1..Len(preLog) : preLog[i].ok) =>
         ~Includes(processedContent, KeywordSelectedRange)


\* The step is the call of preprocessMessageContent.
PreprocessCalled == prePc = "start" /\ prePc' = "done"

\* The text holds the symbol (a rendering is one symbol).
HasSymbol(text, symbol) == \E i \in 1..Len(text) : text[i] = symbol

\* C21: whatever the snapshot and the outcome of the host read, the output
\* holds no "@selected_range"; where the input held one, the output holds
\* the rendered table of the snapshot's selected range with its address, or
\* "no range currently selected" when the snapshot has no selected range.
C21_SelectionNeverLeft ==
  [][PreprocessCalled =>
       /\ ~Includes(processedContent', KeywordSelectedRange)
       /\ Includes(content, KeywordSelectedRange) =>
            IF context.selectedRange # Null
              THEN HasSymbol(processedContent',
                             "selected range " \o context.selectedRange.address \o
                             ":\n" \o FormatRangeDataForAI(JsRange(context.selectedRange)))
              ELSE HasSymbol(processedContent', "no range currently selected")]_vars

(***************************************************************************)
(* ExcelBridge.findInData called on its own, on the values of a used       *)
(* range of one to MaxRows rows and two columns.                           *)
(***************************************************************************)
\* Most rows of a used range drawn.
MaxRows == 2

\* The cell values and the search terms drawn.
FindCells == {"", "foo", "bar", "baz", "X"}
FindTerms == {"foo", "FOO", "ba", "x", ""}

\* The rectangular values of a used range: n rows of two cells.
FindGrids == UNION {[1..n -> [1..2 -> FindCells]] : n \in 1..MaxRows}

\* this.findInData(data.values, search_term)
FindInDataCall ==
  /\ fnPc = "start"
  /\ fnPc' = "findInData"
  /\ fnResult' = FindInData(fnArgs.values, fnArgs.searchTerm)
  /\ UNCHANGED fnArgs
  /\ UNCHANGED runVars
  /\ UNCHANGED <<bridgeVars, storeVars, preVars, asyncVars, msgVars>>

FindInit ==
  /\ fnArgs \in [values : FindGrids, searchTerm : FindTerms]
  /\ fnResult = << >>
  /\ fnPc = "start"

InitFind == FindInit /\ RunIdle /\ BridgeIdle /\ StoreIdle /\ PreIdle /\ AsyncIdle /\ MsgIdle

NextFind == FindInDataCall

SpecFind == InitFind /\ [][NextFind]_vars

(***************************************************************************)
(* Properties of findInData.                                               *)
(***************************************************************************)
\* The cell's string form contains the term, letter case apart.
CellMatches(cell, term) ==
  Includes(ToLowerCase(CharsOf(cell)), ToLowerCase(CharsOf(term)))

\* C22: the results are exactly the cells of the scanned values whose
\* string form contains the search term case-insensitively, each once, with
\* its 1-based row and column, the address of that position and its value,
\* in row-major order.
C22_FindRowMajor ==
  fnPc = "findInData" =>
    LET values == fnArgs.values
        term == fnArgs.searchTerm
    IN /\ \A i \in 1..Len(fnResult) :
            /\ fnResult[i].row \in 1..Len(values)
            /\ fnResult[i].column \in 1..2
            /\ fnResult[i].value = values[fnResult[i].row][fnResult[i].column]
            /\ fnResult[i].address =
                 <<"A", "B">>[fnResult[i].column] \o ToString(fnResult[i].row)
            /\ CellMatches(fnResult[i].value, term)
       /\ \A r \in 1..Len(values) : \A c \in 1..2 :
            CellMatches(values[r][c], term) =>
              \E i \in 1..Len(fnResult) :
                fnResult[i].row = r /\ fnResult[i].column = c
       /\ \A i, j \in 1..Len(fnResult) :
            i < j => \/ fnResult[i].row < fnResult[j].row
                     \/ /\ fnResult[i].row = fnResult[j].row
                        /\ fnResult[i].column < fnResult[j].column

\* C22 witness: on [["foo","bar"],["baz","foo"]] with term "foo" the matches
\* are A1 then B2.
C22_Witness ==
  /\ fnPc = "findInData"
  /\ fnArgs.values = << <<"foo", "bar">>, <<"baz", "foo">> >>
  /\ fnArgs.searchTerm = "foo"
  /\ Len(fnResult) = 2
  /\ fnResult[1].address = "A1"
  /\ fnResult[2].address = "B2"

(***************************************************************************)
(* The address codec called on its own: indexToAddress of the bridge and   *)
(* indexToExcelAddress of the preprocessor.                                *)
(***************************************************************************)
\* Largest row index and largest column index of the run drawn.
MaxRowIndex == 10
MaxColIndex == 53

\* The last two-letter column (ZZ) and the first three-letter one (AAA).
LastTwoLetterColumn == 701

CodecRows == 0..MaxRowIndex
CodecColumns == (0..MaxColIndex) \cup {LastTwoLetterColumn, LastTwoLetterColumn + 1}

\* this.indexToAddress(row, col)
IndexToAddressCall ==
  /\ fnPc = "start"
  /\ fnPc' = "indexToAddress"
  /\ fnResult' = IndexToAddress(fnArgs.row, fnArgs.col)
  /\ UNCHANGED fnArgs
  /\ UNCHANGED runVars
  /\ UNCHANGED <<bridgeVars, storeVars, preVars, asyncVars, msgVars>>

\* indexToExcelAddress(row, col)
IndexToExcelAddressCall ==
  /\ fnPc = "start"
  /\ fnPc' = "indexToExcelAddress"
  /\ fnResult' = IndexToExcelAddress(fnArgs.row, fnArgs.col)
  /\ UNCHANGED fnArgs
  /\ UNCHANGED runVars
  /\ UNCHANGED <<bridgeVars, storeVars, preVars, asyncVars, msgVars>>

CodecInit ==
  /\ fnArgs \in [row : CodecRows, col : CodecColumns]
  /\ fnResult = << >>
  /\ fnPc = "start"

InitCodec == CodecInit /\ RunIdle /\ BridgeIdle /\ StoreIdle /\ PreIdle /\ AsyncIdle /\ MsgIdle

NextCodec ==
  \/ IndexToAddressCall
  \/ IndexToExcelAddressCall

SpecCodec == InitCodec /\ [][NextCodec]_vars

(***************************************************************************)
(* Properties of the address codec.                                        *)
(***************************************************************************)
RECURSIVE LettersOf(_)
\* The column letters with the given positions in the alphabet (0 is A).
LettersOf(codes) ==
  IF codes = << >> THEN "" ELSE Alphabet[Head(codes) + 1] \o LettersOf(Tail(codes))

RECURSIVE DecodeColumn(_)
\* The standard decoding of column letters: base 26 with the digits 1..26,
\* less one.
DecodeColumn(codes) ==
  IF codes = << >> THEN -1
  ELSE (DecodeColumn(SubSeq(codes, 1, Len(codes) - 1)) + 1) * 26 + codes[Len(codes)]

\* C23: the address of (row, col) is the column letters of col in base 26
\* without a zero digit followed by row + 1; decoding it gives (row, col)
\* back; distinct pairs have distinct addresses; (0,0) is "A1", (0,26) is
\* "AA1", (5,1) is "B6"; and the two copies of the codec agree.
C23_CodecInvertible ==
  fnPc \in {"indexToAddress", "indexToExcelAddress"} =>
    LET row == fnArgs.row
        col == fnArgs.col
        codes == ColumnCodes(col)
    IN /\ fnResult = IndexToAddress(row, col)
       /\ fnResult = IndexToExcelAddress(row, col)
       /\ fnResult = LettersOf(codes) \o ToString(row + 1)
       /\ codes # << >>
       /\ \A i \in 1..Len(codes) : codes[i] \in 0..25
       /\ DecodeColumn(codes) = col
       /\ \A r \in CodecRows : \A c \in CodecColumns :
            <<r, c>> # <<row, col>> => IndexToAddress(r, c) # fnResult
       /\ (row = 0 /\ col = 0) => fnResult = "A1"
       /\ (row = 0 /\ col = 25) => fnResult = "Z1"
       /\ (row = 0 /\ col = 26) => fnResult = "AA1"
       /\ (row = 5 /\ col = 1) => fnResult = "B6"

\* C23 witness: the preprocessor's copy encoded (0, 26) as "AA1".
C23_Witness ==
  /\ fnPc = "indexToExcelAddress"
  /\ fnArgs = [row |-> 0, col |-> 26]
  /\ fnResult = "AA1"

(***************************************************************************)
(* Properties of the placeholder handlers of the bridge.                   *)
(***************************************************************************)
\* The step is a tool call with one of the two placeholder actions.
PlaceholderCalled ==
  /\ calls' = calls + 1
  /\ lastCall'.action \in {"format_range", "create_chart"}

\* C24: a format_range or create_chart tool call resolves with success =
\* true and a message as its only data, makes no host call, and leaves the
\* workbook and the stored snapshot as they were.
C24_PlaceholdersTouchNothing ==
  [][PlaceholderCalled =>
       /\ settled' = "resolved"
       /\ lastResult'.success
       /\ lastResult'.error = Absent
       /\ DOMAIN lastResult'.data = {"message"}
       /\ hostLog' = << >>
       /\ <<office', sheets', active', cells', selection'>> =
            <<office, sheets, active, cells, selection>>
       /\ context' = context]_vars

\* C24 witness: with a ready snapshot, create_chart answered success and
\* the host was not called.
C24_Witness ==
  /\ calls > 0
  /\ context.isExcelReady
  /\ lastCall.action = "create_chart"
  /\ "data_range" \in lastCall.given
  /\ lastResult.success
  /\ hostLog = << >>

(***************************************************************************)
(* useExcelContext followed one await at a time: initializeExcel,          *)
(* refreshContext, setCellValue and the selection-change callback are in   *)
(* flight together, and each step runs one of them from the await it is    *)
(* suspended at to its next await (or to its end).                         *)
(***************************************************************************)
\* Most operations started besides initializeExcel.
MaxFlights == 2

\* The data fields of ExcelContext.
DataFields == {"workbookName", "worksheets", "activeWorksheet", "selectedRange",
               "activeWorksheetData"}

\* An operation suspended at the await of the call named.
Flight(kind, await) ==
  [kind |-> kind, pc |-> await, startedAt |-> updates, info |-> Null, sel |-> Null]

\* How a step leaves the operation: suspended at its next await, or ended.
Suspended(w, f) ==
  [w |-> w, flight |-> f, done |-> FALSE, ok |-> TRUE, refreshed |-> FALSE,
   reads |-> << >>]
Ended(w, f, ok, refreshed, reads) ==
  [w |-> w, flight |-> f, done |-> TRUE, ok |-> ok, refreshed |-> refreshed,
   reads |-> reads]

\* The catch of initializeExcel and of refreshContext, which left isLoading
\* as it was.
LoadFailed_StillLoading(w, message) ==
  [w EXCEPT !.ctx.error = [message |-> message]]

\* The catch of initializeExcel and of refreshContext.
LoadFailed(w, message) ==
  [w EXCEPT !.ctx.isLoading = FALSE, !.ctx.error = [message |-> message]]

\* initializeExcel and refreshContext from `await getWorkbookInfo()` on.
AdvanceLoad(w, f, fails) ==
  CASE f.pc = "getWorkbookInfo" ->
         LET r == ServiceGetWorkbookInfo(w, fails)
         IN IF r.ok
              THEN Suspended(r.w, [f EXCEPT !.pc = "getSelectedRange", !.info = r.value])
              ELSE Ended(LoadFailed(r.w, r.error), f, FALSE, FALSE, << >>)
    [] f.pc = "getSelectedRange" ->
         LET r == ServiceGetSelectedRange(w, fails)
         IN Suspended(r.w, [f EXCEPT !.pc = "getActiveWorksheetData", !.sel = OrNull(r)])
    [] f.pc = "getActiveWorksheetData" ->
         LET r == ServiceGetActiveWorksheetData(w, fails)
             reads == [workbookName |-> f.info.workbookName,
                       worksheets |-> f.info.worksheets,
                       activeWorksheet |-> f.info.activeWorksheet,
                       selectedRange |-> f.sel,
                       activeWorksheetData |-> OrNull(r)]
         IN Ended([r.w EXCEPT !.ctx =
                     IF f.kind = "initializeExcel"
                       THEN [workbookName |-> reads.workbookName,
                             worksheets |-> reads.worksheets,
                             activeWorksheet |-> reads.activeWorksheet,
                             selectedRange |-> reads.selectedRange,
                             activeWorksheetData |-> reads.activeWorksheetData,
                             isExcelReady |-> TRUE,
                             isLoading |-> FALSE,
                             error |-> Null]
                       ELSE [@ EXCEPT !.workbookName = reads.workbookName,
                                      !.worksheets = reads.worksheets,
                                      !.activeWorksheet = reads.activeWorksheet,
                                      !.selectedRange = reads.selectedRange,
                                      !.activeWorksheetData = reads.activeWorksheetData,
                                      !.isLoading = FALSE]],
                  f, TRUE, TRUE, reads)

\* One operation run from the await it is suspended at to the next one.
Advance(w, f, fails) ==
  CASE f.pc = "initialize" ->
         IF ServiceInitialize(w)
           THEN Suspended(w, [f EXCEPT !.pc = "getWorkbookInfo"])
           ELSE Ended(LoadFailed(w, NotAvailableMessage), f, FALSE, FALSE, << >>)
    [] f.pc = "setCellValue" ->
         LET r == ServiceSetCellValue(w, fails, "A1", "z", UNDEF)
         IN IF ~r.ok THEN Ended(r.w, f, FALSE, FALSE, << >>)
            ELSE IF ~r.w.ctx.isExcelReady THEN Ended(r.w, f, TRUE, FALSE, << >>)
            ELSE Suspended([r.w EXCEPT !.ctx.isLoading = TRUE],
                           [f EXCEPT !.pc = "getWorkbookInfo"])
    [] f.kind = "onSelectionChanged" ->
         LET r == ServiceGetSelectedRange(w, fails)
         IN IF r.ok
              THEN Ended([r.w EXCEPT !.ctx.selectedRange = r.value], f, TRUE, TRUE,
                         [selectedRange |-> r.value])
              ELSE Ended(r.w, f, FALSE, FALSE, << >>)
    [] OTHER -> AdvanceLoad(w, f, fails)

\* The operation at position i removed.
Without(fs, i) == SubSeq(fs, 1, i - 1) \o SubSeq(fs, i + 1, Len(fs))

\* actions.refreshContext()
StartRefresh ==
  /\ started < MaxFlights
  /\ started' = started + 1
  /\ IF context.isExcelReady
       THEN /\ context' = [context EXCEPT !.isLoading = TRUE]
            /\ flights' = Append(flights, Flight("refreshContext", "getWorkbookInfo"))
       ELSE UNCHANGED <<context, flights>>
  /\ UNCHANGED <<updates, lastDone>>
  /\ UNCHANGED <<office, sheets, active, cells, selection, initStarted, lastCall,
                 lastResult, prevCall, settled, hostLog, calls>>
  /\ UNCHANGED <<storeVars, preVars, fnVars>>
  /\ UNCHANGED runVars
  /\ UNCHANGED msgVars

\* actions.setCellValue("A1", "z")
StartSetCellValue ==
  /\ started < MaxFlights
  /\ started' = started + 1
  /\ flights' = Append(flights, Flight("setCellValue", "setCellValue"))
  /\ UNCHANGED <<updates, lastDone>>
  /\ UNCHANGED bridgeVars
  /\ UNCHANGED <<storeVars, preVars, fnVars>>
  /\ UNCHANGED runVars
  /\ UNCHANGED msgVars

\* The user selects another range; the listener, registered once the
\* snapshot is ready, sets the timeout whose callback reads the selection.
SelectionChanged ==
  /\ started < MaxFlights
  /\ started' = started + 1
  /\ selection' = IF selection = "A1" THEN "A1:B1" ELSE "A1"
  /\ flights' = IF context.isExcelReady
                  THEN Append(flights, Flight("onSelectionChanged", "getSelectedRange"))
                  ELSE flights
  /\ UNCHANGED <<updates, lastDone>>
  /\ UNCHANGED <<office, sheets, active, cells, context, initStarted, lastCall,
                 lastResult, prevCall, settled, hostLog, calls>>
  /\ UNCHANGED <<storeVars, preVars, fnVars>>
  /\ UNCHANGED runVars
  /\ UNCHANGED msgVars

\* One operation in flight goes on: the host call it awaits resolves or
\* rejects, and it runs to its next await or to its end.
StepFlight ==
  /\ \E i \in 1..Len(flights) :
       \E fails \in {{}, {flights[i].pc}} :
         \E f \in {flights[i]} :
         \E out \in {Advance([World EXCEPT !.log = << >>], f, fails)} :
            /\ SetWorld([out.w EXCEPT !.log = hostLog])
            /\ flights' = IF out.done THEN Without(flights, i)
                          ELSE [flights EXCEPT ![i] = out.flight]
            /\ updates' = IF out.done /\ out.refreshed /\ updates < MaxFlights + 1
                            THEN updates + 1 ELSE updates
            /\ lastDone' = IF out.done
                             THEN Done(f.kind, out.ok, out.refreshed, out.reads,
                                       f.startedAt < updates)
                             ELSE lastDone
  /\ UNCHANGED <<started, initStarted, lastCall, lastResult, prevCall, settled, calls>>
  /\ UNCHANGED <<storeVars, preVars, fnVars>>
  /\ UNCHANGED runVars
  /\ UNCHANGED msgVars

\* The hook mounted in Excel or in another host: initializeExcel is in
\* flight from the mount effect.
AsyncInit ==
  /\ StoreInit
  /\ office \in {"Excel", "Word"}
  /\ flights = <<[kind |-> "initializeExcel", pc |-> "initialize", startedAt |-> 0,
                  info |-> Null, sel |-> Null]>>
  /\ started = 0
  /\ updates = 0
  /\ lastDone = NoneDone

InitAsync == AsyncInit /\ RunIdle /\ StoreIdle /\ PreIdle /\ FnIdle /\ MsgIdle

NextAsync ==
  \/ StartRefresh
  \/ StartSetCellValue
  \/ SelectionChanged
  \/ StepFlight

SpecAsync == InitAsync /\ [][NextAsync]_vars

\* Every host call that is awaited resolves or rejects in the end.
SpecAsyncLive == SpecAsync /\ WF_vars(StepFlight)

(***************************************************************************)
(* Properties of overlapping operations.                                   *)
(***************************************************************************)
\* C25: when an operation that updates the snapshot completes after
\* another one that updated it while the first was in flight, then, once
\* nothing is in flight, every data field of the snapshot holds the value
\* the later operation read.
C25_LaterRefreshWins ==
  (flights = << >> /\ lastDone.refreshed /\ lastDone.overlapped) =>
    /\ DOMAIN lastDone.reads = DataFields
    /\ \A field \in DOMAIN lastDone.reads : context[field] = lastDone.reads[field]

(***************************************************************************)
(* formatRangeDataForAI and formatWorksheetDataForAI called on their own,  *)
(* on values of one to MaxRows rows and two columns.                       *)
(***************************************************************************)
\* The cell values drawn: the empty cell, a text, the numbers 0 and 7, false.
FormatCells == {JsString(""), JsString("x"), JsNumber(0), JsNumber(7), JsBoolean(FALSE)}

\* The data drawn: none, or the values of a range.
FormatData ==
  {Null} \cup {[values |-> g] :
                 g \in UNION {[1..n -> [1..2 -> FormatCells]] : n \in 1..MaxRows}}

\* formatRangeDataForAI(rangeData)
FormatRangeDataForAICall ==
  /\ fnPc = "start"
  /\ fnPc' = "formatRangeDataForAI"
  /\ fnResult' = FormatRangeDataForAI(fnArgs.data)
  /\ UNCHANGED fnArgs
  /\ UNCHANGED runVars
  /\ UNCHANGED <<bridgeVars, storeVars, preVars, asyncVars, msgVars>>

\* formatWorksheetDataForAI(worksheetData, maxRows)
FormatWorksheetDataForAICall ==
  /\ fnPc = "start"
  /\ fnPc' = "formatWorksheetDataForAI"
  /\ fnResult' = FormatWorksheetDataForAI(fnArgs.data, fnArgs.maxRows)
  /\ UNCHANGED fnArgs
  /\ UNCHANGED runVars
  /\ UNCHANGED <<bridgeVars, storeVars, preVars, asyncVars, msgVars>>

FormatInit ==
  /\ fnArgs \in [data : FormatData, maxRows : {1, ActiveSheetRows}]
  /\ fnResult = << >>
  /\ fnPc = "start"

InitFormat == FormatInit /\ RunIdle /\ BridgeIdle /\ StoreIdle /\ PreIdle /\ AsyncIdle /\ MsgIdle

NextFormat ==
  \/ FormatRangeDataForAICall
  \/ FormatWorksheetDataForAICall

SpecFormat == InitFormat /\ [][NextFormat]_vars

(***************************************************************************)
(* Properties of the table rendering.                                      *)
(***************************************************************************)
\* The line of a row as the rendering is described: "Row <n>: " and, for
\* each cell, its address and its value, "(empty)" standing for an empty
\* cell and for no other.
RowLine(row, n) ==
  "Row " \o ToString(n) \o ": " \o
  JoinStrings([c \in 1..Len(row) |->
                 <<"A", "B">>[c] \o ToString(n) \o ": " \o
                 (IF row[c] = JsString("") THEN "(empty)" ELSE row[c].text)],
              ", ")

\* C26: the rendering of a table is one line per row, in row order, each
\* "Row <n>: <addr>: <value>, ..." with the codec address of every cell,
\* the value of every cell that is not empty (0 and false included), and
\* "(empty)" for the empty cells only.
C26_TableRendering ==
  (fnPc \in {"formatRangeDataForAI", "formatWorksheetDataForAI"} /\ fnArgs.data # Null) =>
    LET values == fnArgs.data.values
        cut == fnPc = "formatWorksheetDataForAI" /\ Len(values) > fnArgs.maxRows
        shown == IF cut THEN fnArgs.maxRows ELSE Len(values)
        footer == IF cut
                    THEN "\n... (showing first " \o ToString(fnArgs.maxRows) \o
                         " of " \o ToString(Len(values)) \o " rows)"
                    ELSE ""
    IN fnResult = JoinStrings([r \in 1..shown |-> RowLine(values[r], r)], "\n") \o footer

(***************************************************************************)
(* Properties of the "@active_sheet" keyword.                              *)
(***************************************************************************)
\* C27: in a text without "@selected_range", every "@active_sheet" is
\* replaced by the rendering of the first ActiveSheetRows rows of the
\* active worksheet data (with the footer when there are more), or by the
\* "(data unavailable)" placeholder when there is no such data, and
\* "@workbook_info" is replaced as well.
C27_ActiveSheetRendered ==
  [][(/\ PreprocessCalled
      /\ Includes(content, KeywordActiveSheet)
      /\ ~Includes(content, KeywordSelectedRange)) =>
       /\ ~Includes(processedContent', KeywordActiveSheet)
       /\ ~Includes(processedContent', KeywordWorkbookInfo)
       /\ HasSymbol(processedContent',
            "active worksheet \"" \o context.activeWorksheet \o "\"" \o
            (IF context.activeWorksheetData # Null
               THEN ":\n" \o FormatWorksheetDataForAI(JsRange(context.activeWorksheetData),
                                                      ActiveSheetRows)
               ELSE " (data unavailable)"))]_vars

(***************************************************************************)
(* MyModelAdapter.run from its call to the request body: the conversation  *)
(* it is given, and the messages it sends.  A message is an object with an *)
(* identity (ref), a role and its content parts.                           *)
(***************************************************************************)
\* Longest conversation drawn.
MaxMessages == 2

TextPart(text) == [type |-> "text", text |-> text]
ImagePart == [type |-> "image", text |-> EmptyText]

\* The contents drawn: none, a plain text, a text with a keyword, an image,
\* a text with a keyword followed by an image.
MessageContents ==
  {<< >>, <<TextPart(<<"x">>)>>, <<TextPart(KeywordWorkbookInfo)>>, <<ImagePart>>,
   <<TextPart(KeywordWorkbookInfo), ImagePart>>}

\* The conversations drawn: the message at position i is the object i.
Conversations ==
  UNION {{[i \in 1..n |-> [ref |-> i, role |-> m[i].role, content |-> m[i].content]] :
            m \in [1..n -> [role : {"user", "assistant"}, content : MessageContents]]} :
         n \in 0..MaxMessages}

\* The condition of the rewrite without the test of isExcelReady.
Rewritable_AnySnapshot(msgs, excelContext) ==
  /\ msgs # << >>
  /\ msgs[Len(msgs)].role = "user"
  /\ msgs[Len(msgs)].content # << >>
  /\ msgs[Len(msgs)].content[1].type = "text"

\* `lastMessage?.role === 'user' && lastMessage.content?.[0]?.type === 'text'
\*  && excelContext.isExcelReady`
Rewritable(msgs, excelContext) ==
  /\ msgs # << >>
  /\ msgs[Len(msgs)].role = "user"
  /\ msgs[Len(msgs)].content # << >>
  /\ msgs[Len(msgs)].content[1].type = "text"
  /\ excelContext.isExcelReady

\* `[...messages.slice(0, -1), {...lastMessage, content: [{type: 'text',
\*  text: preprocessedContent}]}]`: a new array whose last element is a new
\* object.
Rewritten(msgs, preprocessedContent) ==
  SubSeq(msgs, 1, Len(msgs) - 1) \o
  <<[msgs[Len(msgs)] EXCEPT !.ref = Len(msgs) + 1,
                            !.content = <<TextPart(preprocessedContent)>>]>>

\* run, up to `const requestBody = {messages: processedMessages, ...}`.
BuildRequest ==
  /\ msgPc = "start"
  /\ msgPc' = "sent"
  /\ IF Rewritable(messages, context)
       THEN \E fails \in PreEnvs :
              LET originalContent == messages[Len(messages)].content[1].text
                  out == PreprocessMessageContent(World, originalContent, context, fails)
              IN /\ sentMessages' = IF out.value # originalContent
                                      THEN Rewritten(messages, out.value)
                                      ELSE messages
                 /\ SetWorld([out.w EXCEPT !.log = hostLog])
       ELSE /\ sentMessages' = messages
            /\ UNCHANGED <<office, sheets, active, cells, selection, context, hostLog>>
  /\ UNCHANGED messages
  /\ UNCHANGED <<initStarted, lastCall, lastResult, prevCall, settled, calls>>
  /\ UNCHANGED <<storeVars, preVars, fnVars, asyncVars>>
  /\ UNCHANGED runVars

MsgInit ==
  /\ StoreInit
  /\ office = "Excel"
  /\ messages \in Conversations
  /\ sentMessages = << >>
  /\ msgPc = "start"

InitMsg == MsgInit /\ RunIdle /\ StoreIdle /\ PreIdle /\ FnIdle /\ AsyncIdle

NextMsg ==
  \/ InitializeExcel
  \/ BuildRequest

SpecMsg == InitMsg /\ [][NextMsg]_vars

(***************************************************************************)
(* Properties of the request body.                                         *)
(***************************************************************************)
\* The step builds the request body.
RequestBuilt == msgPc = "start" /\ msgPc' = "sent"

\* C28: run sends as many messages as it is given, in the same order;
\* every message but the last is the object it was given; the last is
\* either the object given or, when it is a user message whose first part
\* is text and the snapshot is ready, a new object with the same role and
\* one text part with another text; the caller's conversation is not
\* changed; with a snapshot that is not ready the conversation is sent as
\* given.
C28_OnlyLastRewritten ==
  [][RequestBuilt =>
       LET n == Len(messages)
       IN /\ messages' = messages
          /\ Len(sentMessages') = n
          /\ \A i \in 1..(n - 1) : sentMessages'[i] = messages[i]
          /\ n > 0 =>
               \/ sentMessages'[n] = messages[n]
               \/ /\ messages[n].role = "user"
                  /\ messages[n].content # << >>
                  /\ messages[n].content[1].type = "text"
                  /\ context.isExcelReady
                  /\ \A i \in 1..n : sentMessages'[n].ref # messages[i].ref
                  /\ sentMessages'[n].role = "user"
                  /\ Len(sentMessages'[n].content) = 1
                  /\ sentMessages'[n].content[1].type = "text"
                  /\ sentMessages'[n].content[1].text # messages[n].content[1].text
          /\ ~context.isExcelReady => sentMessages' = messages]_vars

\* C28 witness: of two user messages with a keyword, the first was sent as
\* it was and the second as a new object with the keyword replaced.
C28_Witness ==
  /\ msgPc = "sent"
  /\ Len(messages) = 2
  /\ messages[1].content = <<TextPart(KeywordWorkbookInfo)>>
  /\ messages[2].content = <<TextPart(KeywordWorkbookInfo)>>
  /\ messages[1].role = "user"
  /\ sentMessages[1] = messages[1]
  /\ sentMessages[2].ref = 3
  /\ ~Includes(sentMessages[2].content[1].text, KeywordWorkbookInfo)

(***************************************************************************)
(* Properties of the ready flag.                                           *)
(***************************************************************************)
\* C29: isExcelReady is false at the start; only a step of initializeExcel
\* makes it true; no step makes it false again; while it is false a call of
\* refreshContext makes no host call and leaves the snapshot as it is, a
\* mutation makes no host call besides its own, and a change of the
\* selection starts no timer.
C29_ReadyMonotone ==
  /\ ~context.isExcelReady
  /\ [][/\ (context'.isExcelReady /\ ~context.isExcelReady) => Initialized
        /\ context.isExcelReady => context'.isExcelReady
        /\ (~context.isExcelReady /\ ops' = ops + 1 /\ storeOp'.name = "refreshContext") =>
             /\ storeOp'.outcome = "resolved"
             /\ storeLog' = << >>
             /\ context' = context
        /\ (~context.isExcelReady /\ MutationCalled) =>
             /\ Len(storeLog') = 1
             /\ storeLog'[1].op = storeOp'.name
             /\ context' = context
        /\ (~context.isExcelReady /\ events' = events + 1) => timers' = timers]_vars

\* C29 witness: inside Excel the initialization failed on its first read,
\* and a refresh called afterwards returned without a host call.
C29_Witness ==
  /\ office = "Excel"
  /\ initStarted
  /\ ~context.isExcelReady
  /\ context.error # Null
  /\ storeOp = StoreOp("refreshContext", "resolved")
  /\ storeLog = << >>

(***************************************************************************)
(* Properties of the loading flag.                                         *)
(***************************************************************************)
\* The operation is an initializeExcel, or a refreshContext past its
\* `setContext(prev => ({...prev, isLoading: true}))`.
IsLoader(f) ==
  \/ f.kind = "initializeExcel"
  \/ f.kind \in {"refreshContext", "setCellValue"} /\ f.pc # "setCellValue"

\* No initializeExcel and no refresh is in flight.
NoLoader == \A i \in 1..Len(flights) : ~IsLoader(flights[i])

\* C30: isLoading is false whenever no initializeExcel and no refresh is in
\* flight; when every awaited host call resolves or rejects in the end,
\* every initializeExcel and every refresh in flight ends, on its success
\* path or in its catch, and isLoading is false then.
C30_LoadingComesDown ==
  /\ [](NoLoader => ~context.isLoading)
  /\ (~NoLoader) ~> (NoLoader /\ ~context.isLoading)

\* C30 witness: a refresh whose read of the workbook info was rejected has
\* ended, nothing is in flight, and isLoading is false with the error set.
C30_Witness ==
  /\ flights = << >>
  /\ lastDone.kind = "refreshContext"
  /\ ~lastDone.ok
  /\ context.isExcelReady
  /\ context.error # Null
  /\ ~context.isLoading

====
